---------------------------- MODULE Spec2Model ----------------------------
(***************************************************************************)
(* Model of the smart-follow reframing engine, app/engine.py               *)
(* (smart_follow_crop and its nested helpers).                             *)
(*                                                                         *)
(* Three specifications share the variables:                               *)
(*   - Spec      the frame loop, from the state in which it is entered;    *)
(*   - SpecRun   the whole call for one clip of create_job: opening the    *)
(*               source and the sink, loading the cascades, the audio      *)
(*               analysis, the frame loop, the release and the mux, and    *)
(*               every way the call can raise;                             *)
(*   - SpecGeom  the crop size as a function of the source size and the    *)
(*               target aspect.                                            *)
(*                                                                         *)
(* Number representation.  The engine computes the smoothed center, the    *)
(* face centers and the scores in floating point.  The model computes the  *)
(* same quantities exactly:                                                *)
(*   - a position is an integer number of 1/Scale pixels, Scale a power    *)
(*     of two large enough for every "smooth * delta" of a clip of         *)
(*     MaxFrames frames to be exact (ExactArithmetic checks it);           *)
(*   - the smoothing factor is the fraction smooth.num / smooth.den;       *)
(*   - a score is the pair [a, d] standing for the real number             *)
(*         (a - 40 * d / Scale^2) / 50000,                                 *)
(*     a = 50000 * (area or activity term), d = squared distance in        *)
(*     (1/Scale pixel)^2, since 0.0008 * 50000 = 40;                       *)
(*   - a loudness value is an integer number of 1/1000 of full amplitude,  *)
(*     the threshold an integer number of 1/2000000.                       *)
(***************************************************************************)
EXTENDS Integers, Sequences, FiniteSets, TLC

\* ------------------------------------------------------------------------
\* Bounds of the model
\* ------------------------------------------------------------------------

\* Longest clip, in frames, the frame source delivers.
MaxFrames == 5

\* ------------------------------------------------------------------------
\* Arithmetic helpers
\* ------------------------------------------------------------------------

RECURSIVE Pow2(_)
Pow2(n) == IF n <= 0 THEN 1 ELSE 2 * Pow2(n - 1)

\* Positions are integers in units of 1/Scale pixel.
Scale == Pow2(MaxFrames + 1)

Abs(v) == IF v < 0 THEN -v ELSE v

Max2(a, b) == IF a >= b THEN a ELSE b

Min2(a, b) == IF a <= b THEN a ELSE b

\* Python's round() of the fraction n / d (d > 0): nearest integer, a tie
\* going to the even neighbour.
RoundHalfEven(n, d) ==
    LET q == n \div d
        r == n - q * d
    IN  IF 2 * r < d THEN q
        ELSE IF 2 * r > d THEN q + 1
        ELSE IF q % 2 = 0 THEN q ELSE q + 1

\* Python's int() of the non-negative fraction n / d: truncation.
IntTrunc(n, d) == n \div d

\* The absent value (Python None) of last_det, candidate, rms and thr.
None == << >>


\* ------------------------------------------------------------------------
\* Inputs: the source clips, the configurations, what the detector and the
\* motion measurement can return
\* ------------------------------------------------------------------------

\* What cap.get reports for the opened clip: width, height, frame rate.
SourceClips == { [in_w |-> 16, in_h |-> 16, fps |-> 4] }

\* The arguments of smart_follow_crop, within their documented domains:
\* smooth in (0, 1], given as the fraction num / den; hold_frames,
\* deadzone_px, min_switch_frames and max_move_px_per_sec non-negative.
\* min_switch_frames ranges up to a value above the initial value of
\* frames_since_switch.  exclude_right_pct is given in percent (0.25 is 25);
\* create_job always passes 0.0.
Configs ==
    [ target_aspect       : {"9:16", "16:9"},
      out_w               : {1080},
      out_h               : {1920},
      sample_fps          : {2, 4},
      smooth              : {[num |-> 1, den |-> 2], [num |-> 1, den |-> 1]},
      hold_frames         : {0, 2},
      mode                : {"face", "speaker"},
      deadzone_px         : {0, 3},
      min_switch_frames   : {0, 3, 1000000},
      max_move_px_per_sec : {4, 320},
      exclude_right_pct   : {0} ]

\* Per-frame loudness of the clip's audio track, in 1/1000 of full amplitude.
AudioSignals == { <<0, 50, 0>> }

\* Face boxes (x, y, w, h) in source pixels.  The two boxes have the same
\* area and are at the same distance from the center of a 16 x 16 frame.
FaceA == <<1, 0, 4, 4>>

FaceB == <<11, 12, 4, 4>>

FaceBoxes == {FaceA, FaceB}

\* What _faces_detect can return on a sampled frame.
DetectorOutputs == { << >>, <<FaceA>>, <<FaceB>>, <<FaceA, FaceB>>, <<FaceB, FaceA>> }

\* Mean absolute pixel difference under a face's mouth region.
MotValues == {0, 1}

\* What the cascades can return on the detection image of a sampled frame:
\* the frontal pass, the profile pass, and the profile pass on the mirrored
\* image (boxes in mirrored coordinates).  FaceMid has its center at x = 12,
\* three quarters of a 16 pixel wide frame; FaceMirrored, once de-mirrored in
\* such a frame, is <<11, 0, 4, 4>>.
FaceMid == <<10, 4, 4, 4>>

FaceMirrored == <<1, 0, 4, 4>>

FrontalOutputs == { << >>, <<FaceA>>, <<FaceA, FaceB>> }

ProfileOutputs == { << >>, <<FaceMid>> }

MirroredOutputs == { << >>, <<FaceMirrored>> }

\* ------------------------------------------------------------------------
\* Setup: geometry, sampling stride, audio threshold
\* ------------------------------------------------------------------------

\* out_w = (int(out_w) // 2) * 2
ForceEven(v) == (v \div 2) * 2

\* target_ar as the fraction num / den.
target_ar(target_aspect, out_w, out_h, in_w, in_h) ==
    IF target_aspect = "9:16" THEN [num |-> 9, den |-> 16]
    ELSE IF target_aspect = "1:1" THEN [num |-> 1, den |-> 1]
    ELSE IF target_aspect = "16:9" THEN [num |-> 16, den |-> 9]
    ELSE IF out_h # 0 THEN [num |-> out_w, den |-> out_h]
    ELSE [num |-> in_w, den |-> in_h]

\* Mutant of crop_size: the width is truncated instead of rounded.
crop_size_truncating(in_w, in_h, ar) ==
    IF in_w * ar.den > ar.num * in_h
    THEN [crop_w |-> IntTrunc(in_h * ar.num, ar.den), crop_h |-> in_h]
    ELSE [crop_w |-> in_w, crop_h |-> RoundHalfEven(in_w * ar.den, ar.num)]

\* (crop_w, crop_h) for a source of in_w x in_h and target ratio ar.
crop_size(in_w, in_h, ar) ==
    IF in_w * ar.den > ar.num * in_h
    THEN [crop_w |-> RoundHalfEven(in_h * ar.num, ar.den), crop_h |-> in_h]
    ELSE [crop_w |-> in_w, crop_h |-> RoundHalfEven(in_w * ar.den, ar.num)]

\* Mutant of sample_step: the detector runs on every frame.
sample_step_every_frame(fps, sample_fps) == 1

\* step = max(1, int(round(fps / max(1, sample_fps))))
sample_step(fps, sample_fps) ==
    Max2(1, RoundHalfEven(fps, Max2(1, sample_fps)))

\* Ascending insertion of v into the ascending sequence sq.
RECURSIVE InsertSorted(_, _)
InsertSorted(v, sq) ==
    IF sq = << >> THEN <<v>>
    ELSE IF v <= Head(sq) THEN <<v>> \o sq
    ELSE <<Head(sq)>> \o InsertSorted(v, Tail(sq))

RECURSIVE SortAsc(_)
SortAsc(sq) == IF sq = << >> THEN << >> ELSE InsertSorted(Head(sq), SortAsc(Tail(sq)))

\* Twice numpy's median of the ascending sequence a.
Median2(a) ==
    LET n == Len(a)
    IN  IF n % 2 = 1 THEN 2 * a[(n + 1) \div 2] ELSE a[n \div 2] + a[n \div 2 + 1]

\* Ten times numpy's 90th percentile (linear interpolation) of the
\* ascending sequence a.
Percentile90x10(a) ==
    LET pos10 == 9 * (Len(a) - 1)
        lo    == pos10 \div 10 + 1
        f     == pos10 % 10
    IN  IF f = 0 THEN 10 * a[lo] ELSE 10 * a[lo] + f * (a[lo + 1] - a[lo])

\* Mutant of rms_threshold: the upper bound is not applied.
rms_threshold_without_upper_bound(rms) ==
    IF rms = None THEN <<40000>>
    ELSE LET a == SortAsc(rms)
         IN  << Max2(30000, 2200 * Median2(a) + 50 * Percentile90x10(a)) >>

\* _rms_threshold, in units of 1/2000000 of full amplitude:
\* max(0.015, min(0.08, med * 2.2 + p90 * 0.25)), and 0.02 without a signal
\* or with an empty one (None is the empty sequence).
\* A threshold is the one-element sequence <<value>>, so that it compares
\* with None.
rms_threshold(rms) ==
    IF rms = None THEN <<40000>>
    ELSE LET a == SortAsc(rms)
         IN  << Max2(30000, Min2(160000, 2200 * Median2(a) + 50 * Percentile90x10(a))) >>

\* ------------------------------------------------------------------------
\* Subject detector
\* ------------------------------------------------------------------------

\* Mutant of invalid_dims: only the width is tested.
invalid_dims_width_only(w, h) == w <= 0

\* if in_w <= 0 or in_h <= 0
invalid_dims(w, h) == w <= 0 \/ h <= 0

\* _load_haar_face_cascades: a frontal cascade that is empty raises; a
\* profile cascade that is empty is replaced by None.
load_haar_face_cascades(frontal_loads, profile_loads) ==
    IF ~frontal_loads
    THEN [ raised |-> TRUE, profile |-> None ]
    ELSE [ raised |-> FALSE, profile |-> IF profile_loads THEN <<"cascade">> ELSE None ]

\* detect_target_w = 640; scale = 640 / in_w if in_w > 640 else 1.0; a box
\* of the detection image is divided by scale.
rescale(box, w) ==
    IF w > 640 THEN [ i \in 1..4 |-> (box[i] * w) \div 640 ] ELSE box

\* x_unflip = gray.shape[1] - (x + w), the detection image being gray_w wide.
unflip(box, gray_w) == << gray_w - (box[1] + box[3]), box[2], box[3], box[4] >>

\* The boxes of sq, each mapped by unflip.
unflip_all(sq, gray_w) == [ i \in 1..Len(sq) |-> unflip(sq[i], gray_w) ]

\* Mutant of runs_fallback: the profile cascade is not tested.
runs_fallback_without_cascade(frontal_faces, profile) == frontal_faces = << >>

\* The fallback pass runs: "(faces is None or len(faces) == 0) and profile
\* is not None".
runs_fallback(frontal_faces, profile) == frontal_faces = << >> /\ profile # None

\* Mutant of left_of_cutoff: a center on the cutoff is kept.
left_of_cutoff_inclusive(box, w, exclude_right_pct) ==
    100 * (2 * box[1] + box[3]) <= 2 * w * (100 - exclude_right_pct)

\* (fb[0] + fb[2] / 2.0) < in_w * (1.0 - exclude_right_pct), in percent.
left_of_cutoff(box, w, exclude_right_pct) ==
    100 * (2 * box[1] + box[3]) < 2 * w * (100 - exclude_right_pct)

\* The subsequence of sq of the boxes that satisfy keep.
RECURSIVE select_boxes(_, _, _)
select_boxes(sq, w, exclude_right_pct) ==
    IF sq = << >> THEN << >>
    ELSE IF left_of_cutoff(Head(sq), w, exclude_right_pct)
         THEN <<Head(sq)>> \o select_boxes(Tail(sq), w, exclude_right_pct)
         ELSE select_boxes(Tail(sq), w, exclude_right_pct)

\* if exclude_right_pct > 0.0: keep the faces left of the cutoff.
exclude_right(full_faces, w, exclude_right_pct) ==
    IF exclude_right_pct > 0 THEN select_boxes(full_faces, w, exclude_right_pct)
    ELSE full_faces

\* The first part of _faces_detect(frame_bgr): the frontal pass; when it
\* finds nothing and a profile cascade is loaded, the profile pass and the
\* de-mirrored profile pass on the mirrored image; rescaled to source
\* coordinates.
found_faces(frontal_faces, profile_faces, mirrored_faces, profile, w) ==
    LET gray_w == IF w > 640 THEN 640 ELSE w
        found  == IF runs_fallback(frontal_faces, profile)
                  THEN profile_faces \o unflip_all(mirrored_faces, gray_w)
                  ELSE frontal_faces
    IN  [ i \in 1..Len(found) |-> rescale(found[i], w) ]

\* _faces_detect(frame_bgr): the faces found, right-side faces excluded.
faces_detect(frontal_faces, profile_faces, mirrored_faces, profile, w, exclude_right_pct) ==
    exclude_right(found_faces(frontal_faces, profile_faces, mirrored_faces, profile, w),
                  w, exclude_right_pct)

\* ------------------------------------------------------------------------
\* Candidate scorer
\* ------------------------------------------------------------------------

\* Center of a face box on one axis (x + w / 2), in 1/Scale pixels.
face_center(lo, size) == (2 * lo + size) * (Scale \div 2)

\* Mutant of mouth_motion_score: the first frame is scored like any other.
mouth_motion_score_without_prev_check(has_prev, box, in_w, in_h, diff) ==
    LET mx0 == Max2(0, box[1])
        my0 == IntTrunc(Max2(0, 100 * box[2] + 55 * box[4]), 100)
        mx1 == Min2(in_w, box[1] + box[3])
        my1 == Min2(in_h, box[2] + box[4])
    IN  IF mx1 <= mx0 \/ my1 <= my0 THEN 0 ELSE diff

\* _mouth_motion_score: 0.0 without a previous frame or when the mouth
\* region (the lower 45% of the box, cut to the frame) is empty, else the
\* mean absolute difference diff of the region's pixels.
mouth_motion_score(has_prev, box, in_w, in_h, diff) ==
    LET mx0 == Max2(0, box[1])
        my0 == IntTrunc(Max2(0, 100 * box[2] + 55 * box[4]), 100)
        mx1 == Min2(in_w, box[1] + box[3])
        my1 == Min2(in_h, box[2] + box[4])
    IN  IF ~has_prev THEN 0
        ELSE IF mx1 <= mx0 \/ my1 <= my0 THEN 0
        ELSE diff

\* Mutant of rms_index: the last element of the signal is read.
rms_index_last(rms, frame_idx) == Len(rms) - 1

\* rms_idx = min(len(rms) - 1, frame_idx), counted from 0.
rms_index(rms, frame_idx) == Min2(Len(rms) - 1, frame_idx)

\* rms[rms_idx] >= thr
is_voiced(rms, thr, frame_idx) ==
    2000 * rms[rms_index(rms, frame_idx) + 1] >= thr[1]

\* The score of one face, before and after the stability bias, as the
\* pair [a, d]: (a - 40 * d / Scale^2) / 50000.
face_score(box, speaker, voiced, mot, cx_s, cy_s) ==
    LET fx   == face_center(box[1], box[3])
        fy   == face_center(box[2], box[4])
        area == box[3] * box[4]
    IN  [ a |-> IF speaker
                THEN mot * (IF voiced THEN 8 ELSE 2) * 50000 + area
                ELSE area * 50000,
          d |-> (fx - cx_s) * (fx - cx_s) + (fy - cy_s) * (fy - cy_s) ]

\* Mutant of score_gt: a score equal to the best so far replaces it.
score_ge(s, best_score) ==
    IF best_score = None THEN s.a >= 0
    ELSE (s.a - best_score.a) >= -((40 * (best_score.d - s.d)) \div (Scale * Scale))

\* score > best_score.  best_score starts at -1e18; a score of the model is
\* above it, having a >= 0 and a squared distance far below 1.25e21 pixels.
score_gt(s, best_score) ==
    IF best_score = None THEN s.a >= 0
    ELSE (s.a - best_score.a) > ((40 * (s.d - best_score.d)) \div (Scale * Scale))

\* The loop of _pick_face over full_faces[i..], scores[i] being the score
\* of full_faces[i], with best and best_score so far.
RECURSIVE pick_loop(_, _, _, _, _)
pick_loop(full_faces, scores, i, best, best_score) ==
    IF i > Len(full_faces) THEN best
    ELSE LET box == full_faces[i]
         IN  IF score_gt(scores[i], best_score)
             THEN pick_loop(full_faces, scores, i + 1,
                            <<face_center(box[1], box[3]), face_center(box[2], box[4])>>,
                            scores[i])
             ELSE pick_loop(full_faces, scores, i + 1, best, best_score)

\* The score _pick_face gives to each face of full_faces, in order.
face_scores(full_faces, motion, mode, rms, thr, frame_idx, in_w, in_h, cx_s, cy_s) ==
    LET speaker == mode = "speaker" /\ rms # None /\ thr # None
        voiced  == IF speaker THEN is_voiced(rms, thr, frame_idx) ELSE FALSE
    IN  [ i \in 1..Len(full_faces) |->
            face_score(full_faces[i], speaker, voiced,
                       mouth_motion_score(frame_idx > 0, full_faces[i],
                                          in_w, in_h, motion[full_faces[i]]),
                       cx_s, cy_s) ]

\* _pick_face(full_faces, gray_full): the center of the best face, or None.
\* motion[box] is the pixel difference under the box's mouth region.
pick_face(full_faces, motion, mode, rms, thr, frame_idx, in_w, in_h, cx_s, cy_s) ==
    pick_loop(full_faces,
              face_scores(full_faces, motion, mode, rms, thr, frame_idx,
                          in_w, in_h, cx_s, cy_s),
              1, None, None)

\* ------------------------------------------------------------------------
\* Stabilizer
\* ------------------------------------------------------------------------

\* frames_since_switch = 999999
InitialFramesSinceSwitch == 999999

\* Mutant of open_to_switch: a switch is possible one sampled frame early.
open_to_switch_one_frame_early(faces_now, hold_now) == faces_now # << >> /\ hold_now <= 1

\* Mutant of open_to_switch: the hold counter is not consulted.
open_to_switch_ignoring_hold(faces_now, hold_now) == faces_now # << >>

\* if faces and hold <= 0
open_to_switch(faces_now, hold_now) == faces_now # << >> /\ hold_now <= 0

\* Mutant of accept_switch: the minimum switch interval is not consulted.
accept_switch_ignoring_interval(cand, since, min_switch_frames) == cand # None

\* Mutant of accept_switch: the interval must be exceeded, not reached.
accept_switch_strict(cand, since, min_switch_frames) ==
    cand # None /\ since > min_switch_frames

\* if candidate and frames_since_switch >= min_switch_frames
accept_switch(cand, since, min_switch_frames) ==
    cand # None /\ since >= min_switch_frames

\* Mutant of coast_down: the counter runs up.
coast_down_counting_up(hold_now) == hold_now + 1

\* Mutant of coast_down: no floor at 0.
coast_down_unbounded(hold_now) == hold_now - 1

\* hold = max(0, hold - 1)
coast_down(hold_now) == Max2(0, hold_now - 1)

\* Mutant of deadzone: deadzone_px taken as a diameter, not a radius.
deadzone_half_radius(d, deadzone_px) == IF 2 * Abs(d) < deadzone_px * Scale THEN 0 ELSE d

\* if abs(dx) < deadzone_px: dx = 0.0
deadzone(d, deadzone_px) == IF Abs(d) < deadzone_px * Scale THEN 0 ELSE d

\* Mutant of smooth_step: the center stays where it is.
smooth_step_standing_still(c, d, smooth) == c

\* Mutant of smooth_step: the step is taken twice.
smooth_step_doubled(c, d, smooth) == c + (2 * smooth.num * d) \div smooth.den

\* Mutant of smooth_step: the center jumps to the target.
smooth_step_full_jump(c, d, smooth) == c + d

\* cx_s = cx_s + smooth * dx
smooth_step(c, d, smooth) == c + (smooth.num * d) \div smooth.den

\* max_per_frame = max_move_px_per_sec / max(1.0, fps), in 1/Scale pixels.
max_per_frame(max_move_px_per_sec, fps) ==
    (max_move_px_per_sec * Scale) \div Max2(1, fps)

\* np.clip(v, lo, hi)
np_clip(v, lo, hi) == Min2(Max2(v, lo), hi)

\* cx_s = float(np.clip(cx_s, cx_s - max_per_frame, cx_s + max_per_frame)):
\* the bounds are taken around the value cx_s has after the smooth step.
clamp_move(c_old, c_new, per_frame) == np_clip(c_new, c_new - per_frame, c_new + per_frame)

\* One axis of the smooth + deadzone + clamp update toward target t.
follow_axis(c, t, deadzone_px, smooth, per_frame) ==
    LET d     == deadzone(t - c, deadzone_px)
        c_new == smooth_step(c, d, smooth)
    IN  clamp_move(c, c_new, per_frame)

\* Mutant of follow_center: without a target the frame origin is followed.
follow_center_toward_origin(cx, cy, target, deadzone_px, smooth, per_frame) ==
    LET t == IF target # None THEN target ELSE <<0, 0>>
    IN  << follow_axis(cx, t[1], deadzone_px, smooth, per_frame),
           follow_axis(cy, t[2], deadzone_px, smooth, per_frame) >>

\* The update of the smoothed center <<cx_s, cy_s>> of one frame:
\* "if last_det is not None: ..." with target the value of last_det.
follow_center(cx, cy, target, deadzone_px, smooth, per_frame) ==
    IF target # None
    THEN << follow_axis(cx, target[1], deadzone_px, smooth, per_frame),
            follow_axis(cy, target[2], deadzone_px, smooth, per_frame) >>
    ELSE << cx, cy >>

\* Mutant of crop_origin: the origin is not clamped into the frame.
crop_origin_unclamped(c, crop, in_dim) == RoundHalfEven(2 * c - crop * Scale, 2 * Scale)

\* x0 = max(0, min(in_w - crop_w, int(round(cx_s - crop_w / 2.0))))
crop_origin(c, crop, in_dim) ==
    Max2(0, Min2(in_dim - crop, RoundHalfEven(2 * c - crop * Scale, 2 * Scale)))

\* ------------------------------------------------------------------------
\* State of one invocation of smart_follow_crop
\* ------------------------------------------------------------------------

VARIABLES
    pc,                   \* "open", "dims", "sink", "cascades", "audio": the
                          \* next step of the setup; "loop": in the frame
                          \* loop; "released": the loop is left and the
                          \* source and sink released; "done": muxed; "failed": an
                          \* exception left the call; "renamed": the caller
                          \* replaced the base clip by the result;
                          \* "geometry", "cropped": before and after the
                          \* crop size is computed (SpecGeom); "threshold",
                          \* "thresholded" (SpecThreshold), "score",
                          \* "scored" (SpecScore), "request", "rejected",
                          \* "accepted" (SpecApi): likewise
    cfg,                  \* the arguments of the call
    in_w, in_h, fps,      \* what the opened source reports
    crop_w, crop_h,       \* the fixed crop size
    step,                 \* the sampling stride
    mode, rms, thr,       \* the mode in force, the loudness signal, the threshold
    cx_s, cy_s,           \* the smoothed center, in 1/Scale pixels
    frame_idx,            \* index of the next frame to read
    last_det,             \* the tracked target (in 1/Scale pixels) or None
    hold,                 \* sampled frames left before a switch is possible
    frames_since_switch,  \* frames since the last accepted switch
    faces,                \* what the detector returned on the last sampled frame
    candidate,            \* what the scorer last returned
    x0, y0,               \* the crop origin of the last frame written
    out_w, out_h,         \* the output size after it was forced even
    profile,              \* the profile cascade, or None
    cap,                  \* the frame source: "closed", "open", "released"
    writer,               \* the frame sink: "none" (not constructed),
                          \* "unopened", "open", "released"
    wav_tmp,              \* the path of the temporary audio file, or None
    files,                \* the files of the job on disk: "clip_mp4" (the base
                          \* clip the caller cut), "tmp_video", "wav_tmp",
                          \* "out_clip" (the muxed result)
    written,              \* the size of the last frame written, or None
    err,                  \* the message of the exception raised, or ""
    mux_calls,            \* number of calls of mux_audio_from_source
    request,              \* the form fields of a request to api_create_job
    engine_kwargs,        \* what api_create_job passes to create_job, or None
    http_status,          \* the status api_create_job answers with, or 0
    credits               \* the credits of the user of the request

\* History variables: they record the run, the engine does not hold them.
VARIABLES
    h_prev,           \* the stabilizer state at the start of the last frame
    h_switch_frames,  \* the indices of the frames that accepted a switch
    h_first_face,     \* index of the first frame with a detected face, or -1
    h_accepted,       \* the candidate the last switch accepted, or None
    h_empty_run,      \* number of sampled frames since the last switch, all
                      \* of them without a face; -1 when there is no such run
    h_det,            \* the last detection: what the frontal pass returned
                      \* and whether the fallback pass ran
    h_audio_failed,   \* the audio analysis raised
    h_loaded,         \* which cascades could be loaded, or None before loading
    h_detect_frames,  \* the indices of the frames the detector ran on
    h_written_log,    \* the indices of the source frames whose crop was
                      \* written to the sink, in the order of the writes
    h_motion,         \* the pixel differences the scorer last saw
    h_scores,         \* the scores the scorer last gave, one per face
    h_rms_idx         \* the index at which the scorer last read the
                      \* loudness signal, as <<index>>, or None

\* The database of main.py, for one user, and the requests in progress.
VARIABLES
    user_exists,          \* the users table has the user's row
    plan,                 \* users.plan
    next_reset_at,        \* users.next_reset_at, a day as <<day>>
    stripe_customer_id,   \* users.stripe_customer_id is set
    sessions,             \* sessions[token]: expires_at as <<day>>, or None
                          \* when the table has no row for the token
    now,                  \* datetime.utcnow(), in days
    jobs                  \* jobs[r]: the position of the r-th concurrent
                          \* request to api_create_job, the credits it read
                          \* and the status it answered with

\* History of the account.
VARIABLES
    h_credits0,       \* the credits before the concurrent requests
    h_expires,        \* h_expires[token]: the day the token expires
    h_revoked,        \* the tokens that were logged out
    h_auth            \* the last call of get_current_user: its token, its
                      \* answer, and whether by then the token had been
                      \* logged out or its expiry had passed; or None

\* The clips of create_job.
VARIABLES
    clip_job,         \* dur, clip_len and max_clips of the call of create_job,
                      \* dur in units of 1 / Unit seconds; or None
    starts            \* the start times create_job computed, in the same
                      \* units; or None before it has

vars == << pc, cfg, in_w, in_h, fps, crop_w, crop_h, step, mode, rms, thr,
           cx_s, cy_s, frame_idx, last_det, hold, frames_since_switch,
           faces, candidate, x0, y0,
           out_w, out_h, profile, cap, writer, wav_tmp, files, written, err,
           h_prev, h_switch_frames, h_first_face, h_accepted, h_empty_run,
           h_det, h_audio_failed, h_loaded,
           mux_calls, request, engine_kwargs, http_status, credits,
           h_detect_frames, h_written_log, h_motion, h_scores, h_rms_idx,
           user_exists, plan, next_reset_at, stripe_customer_id, sessions, now,
           jobs, h_credits0, h_expires, h_revoked, h_auth, clip_job, starts >>

setup == << cfg, in_w, in_h, fps, crop_w, crop_h, step, mode, rms, thr,
            out_w, out_h, profile, h_audio_failed, h_loaded >>

resources == << cap, writer, wav_tmp, files, err >>

stabilizer == << cx_s, cy_s, frame_idx, last_det, hold, frames_since_switch,
                 faces, candidate, x0, y0, written >>

history == << h_prev, h_switch_frames, h_first_face, h_accepted, h_empty_run,
              h_detect_frames, h_written_log >>

\* What the frame loop and the setup leave alone.
account == << user_exists, plan, next_reset_at, stripe_customer_id, sessions,
              now, jobs, h_credits0, h_expires, h_revoked, h_auth >>

clipping == << clip_job, starts >>

\* The values of the variables in account while they are not in use.
AccountIdle ==
    /\ user_exists = FALSE
    /\ plan = "free"
    /\ next_reset_at = None
    /\ stripe_customer_id = FALSE
    /\ sessions = << >>
    /\ now = 0
    /\ jobs = << >>
    /\ h_credits0 = 0
    /\ h_expires = << >>
    /\ h_revoked = {}
    /\ h_auth = None

ClippingIdle ==
    /\ clip_job = None
    /\ starts = None

aside == << mux_calls, request, engine_kwargs, http_status, credits, h_motion,
            h_scores, h_rms_idx, account, clipping >>

\* The values of the variables in aside while they are not in use.
AsideIdle ==
    /\ mux_calls = 0
    /\ request = None
    /\ engine_kwargs = None
    /\ http_status = 0
    /\ credits = 0
    /\ AccountIdle
    /\ h_motion = None
    /\ h_scores = None
    /\ h_rms_idx = None
    /\ ClippingIdle

NoDetection == [ frontal |-> << >>, fallback_ran |-> FALSE, found |-> << >> ]

\* The stabilizer state a frame starts from.
Snapshot ==
    [ cx_s |-> cx_s, cy_s |-> cy_s, last_det |-> last_det, hold |-> hold,
      frames_since_switch |-> frames_since_switch ]

\* The state when the frame loop is entered: the source and the sink are
\* open, the detector is loaded, and in speaker mode the audio was analysed.
Init ==
    /\ \E clip \in SourceClips, c \in Configs, signal \in AudioSignals :
        LET size == crop_size(clip.in_w, clip.in_h,
                              target_ar(c.target_aspect, ForceEven(c.out_w),
                                        ForceEven(c.out_h), clip.in_w, clip.in_h))
        IN  /\ pc = "loop"
            /\ cfg = c
            /\ in_w = clip.in_w
            /\ in_h = clip.in_h
            /\ fps = clip.fps
            /\ crop_w = size.crop_w
            /\ crop_h = size.crop_h
            /\ step = sample_step(clip.fps, c.sample_fps)
            /\ mode = c.mode
            /\ rms = IF c.mode = "speaker" THEN signal ELSE None
            /\ thr = IF c.mode = "speaker" THEN rms_threshold(signal) ELSE None
            /\ cx_s = clip.in_w * (Scale \div 2)
            /\ cy_s = clip.in_h * (Scale \div 2)
            /\ frame_idx = 0
            /\ last_det = None
            /\ hold = 0
            /\ frames_since_switch = InitialFramesSinceSwitch
            /\ faces = << >>
            /\ candidate = None
            /\ x0 = 0
            /\ y0 = 0
            /\ out_w = ForceEven(c.out_w)
            /\ out_h = ForceEven(c.out_h)
            /\ profile = <<"cascade">>
            /\ cap = "open"
            /\ writer = "open"
            /\ wav_tmp = IF c.mode = "speaker" THEN <<"wav_tmp">> ELSE None
            /\ files = {"clip_mp4", "tmp_video"}
                          \cup (IF c.mode = "speaker" THEN {"wav_tmp"} ELSE {})
            /\ written = None
            /\ err = ""
    /\ h_det = NoDetection
    /\ h_audio_failed = FALSE
    /\ h_loaded = [ frontal |-> TRUE, profile |-> TRUE ]
    /\ h_prev = Snapshot
    /\ h_switch_frames = << >>
    /\ h_first_face = -1
    /\ h_accepted = None
    /\ h_empty_run = -1
    /\ h_detect_frames = << >>
    /\ h_written_log = << >>
    /\ AsideIdle

\* Mutant of detect: the target is dropped when the hold runs out.
detect_clearing_lost_target(detected, motion) ==
    IF open_to_switch(detected, hold)
    THEN LET cand == pick_face(detected, motion, mode, rms, thr, frame_idx,
                               in_w, in_h, cx_s, cy_s)
         IN  IF accept_switch(cand, frames_since_switch, cfg.min_switch_frames)
             THEN [ last_det |-> cand, hold |-> cfg.hold_frames, since |-> 0,
                    candidate |-> cand, switched |-> TRUE ]
             ELSE [ last_det |-> last_det, hold |-> hold,
                    since |-> frames_since_switch, candidate |-> cand,
                    switched |-> FALSE ]
    ELSE [ last_det |-> IF coast_down(hold) = 0 THEN None ELSE last_det,
           hold |-> coast_down(hold),
           since |-> frames_since_switch, candidate |-> candidate,
           switched |-> FALSE ]

\* The detection branch of a sampled frame (the body of
\* "if frame_idx % step == 0"): the tracked target, hold,
\* frames_since_switch and candidate it leaves, and whether it switched.
detect(detected, motion) ==
    IF open_to_switch(detected, hold)
    THEN LET cand == pick_face(detected, motion, mode, rms, thr, frame_idx,
                               in_w, in_h, cx_s, cy_s)
         IN  IF accept_switch(cand, frames_since_switch, cfg.min_switch_frames)
             THEN [ last_det |-> cand, hold |-> cfg.hold_frames, since |-> 0,
                    candidate |-> cand, switched |-> TRUE ]
             ELSE [ last_det |-> last_det, hold |-> hold,
                    since |-> frames_since_switch, candidate |-> cand,
                    switched |-> FALSE ]
    ELSE [ last_det |-> last_det, hold |-> coast_down(hold),
           since |-> frames_since_switch, candidate |-> candidate,
           switched |-> FALSE ]

\* Mutant of follow_and_crop: the crop is taken around the center the
\* frame started from.
follow_and_crop_at_previous_center(target) ==
    \E c \in { follow_center(cx_s, cy_s, target, cfg.deadzone_px, cfg.smooth,
                             max_per_frame(cfg.max_move_px_per_sec, fps)) } :
        /\ cx_s' = c[1]
        /\ cy_s' = c[2]
        /\ x0' = crop_origin(cx_s, crop_w, in_w)
        /\ y0' = crop_origin(cy_s, crop_h, in_h)
        /\ written' = << out_w, out_h >>
        /\ h_written_log' = Append(h_written_log, frame_idx)
        /\ frame_idx' = frame_idx + 1
        /\ h_prev' = Snapshot

\* The rest of an iteration, target being the tracked target after the
\* detection branch: follow, crop, write, count.
follow_and_crop(target) ==
    \E c \in { follow_center(cx_s, cy_s, target, cfg.deadzone_px, cfg.smooth,
                             max_per_frame(cfg.max_move_px_per_sec, fps)) } :
        /\ cx_s' = c[1]
        /\ cy_s' = c[2]
        /\ x0' = crop_origin(c[1], crop_w, in_w)
        /\ y0' = crop_origin(c[2], crop_h, in_h)
        /\ written' = << out_w, out_h >>
        /\ h_written_log' = Append(h_written_log, frame_idx)
        /\ frame_idx' = frame_idx + 1
        /\ h_prev' = Snapshot

\* One iteration of the frame loop on a frame whose index is a multiple of
\* step: the detector returns detected, motion[box] is the pixel difference
\* under a box's mouth region.
SampledFrame(detected, motion) ==
    /\ pc = "loop"
    /\ frame_idx < MaxFrames
    /\ frame_idx % step = 0
    /\ \E det \in { detect(detected, motion) } :
        /\ last_det' = det.last_det
        /\ hold' = det.hold
        /\ candidate' = det.candidate
        /\ frames_since_switch' = det.since + 1
        /\ follow_and_crop(det.last_det)
        /\ h_switch_frames' = IF det.switched THEN Append(h_switch_frames, frame_idx)
                              ELSE h_switch_frames
        /\ h_accepted' = IF det.switched THEN det.candidate ELSE h_accepted
        /\ h_empty_run' = IF det.switched THEN 0
                          ELSE IF detected = << >> /\ h_empty_run >= 0 THEN h_empty_run + 1
                          ELSE -1
    /\ faces' = detected
    /\ h_first_face' = IF h_first_face = -1 /\ detected # << >> THEN frame_idx
                       ELSE h_first_face
    /\ h_detect_frames' = Append(h_detect_frames, frame_idx)
    /\ UNCHANGED << pc, setup, resources, aside >>

\* One iteration of the frame loop on any other frame: no detection.
UnsampledFrame ==
    /\ pc = "loop"
    /\ frame_idx < MaxFrames
    /\ frame_idx % step # 0
    /\ frames_since_switch' = frames_since_switch + 1
    /\ follow_and_crop(last_det)
    /\ UNCHANGED << pc, setup, resources, aside, last_det, hold, candidate,
                    faces, h_switch_frames, h_first_face, h_accepted,
                    h_empty_run, h_det, h_detect_frames >>

\* The finally block of the frame loop: the source and the sink are
\* released; the path of the audio file is kept, the file itself is removed
\* (see files' in EndOfStream and LoopException).
release_all ==
    /\ cap' = "released"
    /\ writer' = "released"
    /\ wav_tmp' = wav_tmp

\* Mutant of EndOfStream: the loop does not leave on a failed read.
EndOfStream_ignored ==
    /\ pc = "loop"
    /\ UNCHANGED vars

\* cap.read() reports the end of the clip: the loop is left, and the
\* finally block releases the source and the sink and removes the audio
\* file.
EndOfStream ==
    /\ pc = "loop"
    /\ pc' = "released"
    /\ release_all
    /\ files' = files \ {"wav_tmp"}
    /\ UNCHANGED << setup, stabilizer, history, h_det, err, aside >>

\* The pixel differences a frame can show: the previous frame is read only
\* in speaker mode.
MotionInputs ==
    IF mode = "speaker" THEN [FaceBoxes -> MotValues] ELSE { [b \in FaceBoxes |-> 0] }

Next ==
    \/ \E detected \in DetectorOutputs, motion \in MotionInputs :
           SampledFrame(detected, motion) /\ UNCHANGED h_det
    \/ UnsampledFrame
    \/ EndOfStream

Spec == Init /\ [][Next]_vars

\* ------------------------------------------------------------------------
\* The whole call, from create_job's call of smart_follow_crop for one clip
\* to the replacement of the base clip by the result
\* ------------------------------------------------------------------------

\* What the opened source can report: a clip, or a zero width or height.
RunSourceClips ==
    { [in_w |-> 16, in_h |-> 16, fps |-> 4],
      [in_w |-> 0,  in_h |-> 16, fps |-> 4],
      [in_w |-> 16, in_h |-> 0,  fps |-> 4] }

\* The arguments of the call: an even and an odd output width, both modes,
\* with and without an excluded right side.
RunConfigs ==
    [ target_aspect       : {"9:16"},
      out_w               : {1080, 1081},
      out_h               : {1920},
      sample_fps          : {2},
      smooth              : {[num |-> 1, den |-> 2]},
      hold_frames         : {0, 2},
      mode                : {"face", "speaker"},
      deadzone_px         : {0},
      min_switch_frames   : {0},
      max_move_px_per_sec : {320},
      exclude_right_pct   : {0, 25} ]

\* The boxes _faces_detect can return in a 16 pixel wide frame.
RunFaceBoxes == { FaceA, FaceB, FaceMid, unflip(FaceMirrored, 16) }

\* The pixel differences a frame can show: at most one mouth moves.
RunMotionInputs ==
    IF mode = "speaker"
    THEN { [b \in RunFaceBoxes |-> IF b = moving THEN 1 ELSE 0] :
               moving \in RunFaceBoxes \cup {None} }
    ELSE { [b \in RunFaceBoxes |-> 0] }

\* How the audio analysis of speaker mode can end: the temporary file cannot
\* be created, the extraction or the analysis raises, or a signal results.
AudioOutcomes == {"no_tempfile", "raises", "ok"}

\* The state when create_job calls smart_follow_crop: the base clip is cut,
\* the output size is forced even, nothing is open.
InitRun ==
    /\ pc = "open"
    /\ cfg \in RunConfigs
    /\ in_w = 0
    /\ in_h = 0
    /\ fps = 0
    /\ crop_w = 0
    /\ crop_h = 0
    /\ step = 0
    /\ mode = cfg.mode
    /\ rms = None
    /\ thr = None
    /\ cx_s = 0
    /\ cy_s = 0
    /\ frame_idx = 0
    /\ last_det = None
    /\ hold = 0
    /\ frames_since_switch = 0
    /\ faces = << >>
    /\ candidate = None
    /\ x0 = 0
    /\ y0 = 0
    /\ out_w = ForceEven(cfg.out_w)
    /\ out_h = ForceEven(cfg.out_h)
    /\ profile = None
    /\ cap = "closed"
    /\ writer = "none"
    /\ wav_tmp = None
    /\ files = {"clip_mp4"}
    /\ written = None
    /\ err = ""
    /\ h_det = NoDetection
    /\ h_audio_failed = FALSE
    /\ h_loaded = None
    /\ h_prev = Snapshot
    /\ h_switch_frames = << >>
    /\ h_first_face = -1
    /\ h_accepted = None
    /\ h_empty_run = -1
    /\ h_detect_frames = << >>
    /\ h_written_log = << >>
    /\ AsideIdle

\* An exception leaves the call with message msg.
raise(msg) ==
    /\ pc' = "failed"
    /\ err' = msg

\* cap = cv2.VideoCapture(in_clip_path); if not cap.isOpened(): raise.
OpenSource(opened) ==
    /\ pc = "open"
    /\ IF opened
       THEN /\ cap' = "open"
            /\ pc' = "dims"
            /\ err' = err
       ELSE /\ raise("Could not open clip for smart crop")
            /\ cap' = cap
    /\ UNCHANGED << setup, stabilizer, history, h_det, writer, wav_tmp, files,
                    aside >>

\* The source reports its size and rate; a zero width or height releases
\* the source and raises; otherwise the crop size is computed.
ReadDims(clip) ==
    /\ pc = "dims"
    /\ in_w' = clip.in_w
    /\ in_h' = clip.in_h
    /\ fps' = clip.fps
    /\ IF invalid_dims(clip.in_w, clip.in_h)
       THEN /\ cap' = "released"
            /\ raise("Invalid input dimensions for smart crop")
            /\ UNCHANGED << crop_w, crop_h >>
       ELSE /\ \E size \in { crop_size(clip.in_w, clip.in_h,
                                        target_ar(cfg.target_aspect, out_w, out_h,
                                                  clip.in_w, clip.in_h)) } :
                  /\ crop_w' = size.crop_w
                  /\ crop_h' = size.crop_h
            /\ pc' = "sink"
            /\ UNCHANGED << cap, err >>
    /\ UNCHANGED << cfg, step, mode, rms, thr, out_w, out_h, profile,
                    h_audio_failed, h_loaded, stabilizer, history, h_det, writer,
                    wav_tmp, files, aside >>

\* The temporary video file is created and the writer constructed on it; a
\* writer that is not opened releases the source and raises.
OpenSink(opened) ==
    /\ pc = "sink"
    /\ files' = files \cup {"tmp_video"}
    /\ IF opened
       THEN /\ writer' = "open"
            /\ pc' = "cascades"
            /\ UNCHANGED << cap, err >>
       ELSE /\ writer' = "unopened"
            /\ cap' = "released"
            /\ raise("Could not open VideoWriter (mp4v).")
    /\ UNCHANGED << setup, stabilizer, history, h_det, wav_tmp, aside >>

\* frontal, profile = _load_haar_face_cascades(), then the sampling stride
\* and the initial stabilizer state.  The call is made before the try
\* block of the frame loop: when it raises, nothing is released.
LoadCascades(frontal_loads, profile_loads) ==
    /\ pc = "cascades"
    /\ h_loaded' = [ frontal |-> frontal_loads, profile |-> profile_loads ]
    /\ \E loaded \in { load_haar_face_cascades(frontal_loads, profile_loads) } :
        IF loaded.raised
        THEN /\ raise("Could not load OpenCV frontal face cascade.")
             /\ UNCHANGED << profile, step, stabilizer, h_prev >>
        ELSE /\ profile' = loaded.profile
             /\ step' = sample_step(fps, cfg.sample_fps)
             /\ cx_s' = in_w * (Scale \div 2)
             /\ cy_s' = in_h * (Scale \div 2)
             /\ frames_since_switch' = InitialFramesSinceSwitch
             /\ h_prev' = [ Snapshot EXCEPT !.cx_s = in_w * (Scale \div 2),
                                            !.cy_s = in_h * (Scale \div 2),
                                            !.frames_since_switch = InitialFramesSinceSwitch ]
             /\ pc' = "audio"
             /\ UNCHANGED << err, frame_idx, last_det, hold, faces, candidate,
                             x0, y0, written >>
    /\ UNCHANGED << cfg, in_w, in_h, fps, crop_w, crop_h, mode, rms, thr,
                    out_w, out_h, h_audio_failed, cap, writer, wav_tmp, files,
                    h_switch_frames, h_first_face, h_accepted, h_empty_run,
                    h_detect_frames, h_written_log, h_det, aside >>

\* Mutant of analyse_audio: an exception clears the signal and keeps the mode.
analyse_audio_keeping_mode(outcome, signal) ==
    IF outcome = "ok"
    THEN [ mode |-> "speaker", rms |-> signal, thr |-> rms_threshold(signal) ]
    ELSE [ mode |-> "speaker", rms |-> None, thr |-> None ]

\* The try block of speaker mode: the signal and its threshold, or, on any
\* exception, mode = "face", rms = None, thr = None.
analyse_audio(outcome, signal) ==
    IF outcome = "ok"
    THEN [ mode |-> "speaker", rms |-> signal, thr |-> rms_threshold(signal) ]
    ELSE [ mode |-> "face", rms |-> None, thr |-> None ]

\* "if mode == 'speaker'": the audio track is extracted to a temporary file
\* and analysed; any exception downgrades the mode to face.  Then the frame
\* loop is entered.
AnalyseAudio(outcome, signal) ==
    /\ pc = "audio"
    /\ pc' = "loop"
    /\ IF mode # "speaker"
       THEN UNCHANGED << mode, rms, thr, wav_tmp, files, h_audio_failed >>
       ELSE /\ wav_tmp' = IF outcome = "no_tempfile" THEN None ELSE <<"wav_tmp">>
            /\ files' = IF outcome = "no_tempfile" THEN files
                        ELSE files \cup {"wav_tmp"}
            /\ h_audio_failed' = (outcome # "ok")
            /\ \E audio \in { analyse_audio(outcome, signal) } :
                  /\ mode' = audio.mode
                  /\ rms' = audio.rms
                  /\ thr' = audio.thr
    /\ UNCHANGED << cfg, in_w, in_h, fps, crop_w, crop_h, step, out_w, out_h,
                    profile, h_loaded, stabilizer, history, h_det, cap, writer,
                    err, aside >>

\* A sampled frame of the loop, from what the cascades return on it.
DetectedFrame(frontal_faces, profile_faces, mirrored_faces, motion) ==
    /\ SampledFrame(faces_detect(frontal_faces, profile_faces, mirrored_faces,
                                 profile, in_w, cfg.exclude_right_pct), motion)
    /\ h_det' = [ frontal |-> frontal_faces,
                  fallback_ran |-> runs_fallback(frontal_faces, profile),
                  found |-> found_faces(frontal_faces, profile_faces,
                                        mirrored_faces, profile, in_w) ]

\* Mutant of LoopException: the exception is recorded, and the call goes
\* on to the muxer.
LoopException_reaching_mux ==
    /\ pc = "loop"
    /\ pc' = "released"
    /\ err' = "exception in the frame loop"
    /\ release_all
    /\ files' = files \ {"wav_tmp"}
    /\ UNCHANGED << setup, stabilizer, history, h_det, aside >>

\* An exception is raised inside the frame loop: the finally block releases
\* the source and the sink and removes the audio file; the muxer does not run.
LoopException ==
    /\ pc = "loop"
    /\ raise("exception in the frame loop")
    /\ release_all
    /\ files' = files \ {"wav_tmp"}
    /\ UNCHANGED << setup, stabilizer, history, h_det, aside >>

\* mux_audio_from_source(tmp_video, in_clip_path, out_clip_path), called
\* after the finally block: ffmpeg writes the result, or fails and run()
\* raises.
Mux(ok) ==
    /\ pc = "released"
    /\ mux_calls' = mux_calls + 1
    /\ IF ok
       THEN /\ pc' = "done"
            /\ files' = files \cup {"out_clip"}
            /\ err' = err
       ELSE /\ raise("ffmpeg failed")
            /\ files' = files
    /\ UNCHANGED << setup, stabilizer, history, h_det, cap, writer, wav_tmp,
                    request, engine_kwargs, http_status, credits, h_motion,
                    h_scores, h_rms_idx, account, clipping >>

\* create_job after the call returned: out_mp4.unlink(missing_ok=True);
\* tmp_out.rename(out_mp4).
ReplaceBaseClip ==
    /\ pc = "done"
    /\ pc' = "renamed"
    /\ files' = (files \ {"out_clip"}) \cup {"clip_mp4"}
    /\ UNCHANGED << setup, stabilizer, history, h_det, cap, writer, wav_tmp, err,
                    aside >>

NextRun ==
    \/ \E opened \in BOOLEAN : OpenSource(opened)
    \/ \E clip \in RunSourceClips : ReadDims(clip)
    \/ \E opened \in BOOLEAN : OpenSink(opened)
    \/ \E frontal_loads \in BOOLEAN, profile_loads \in BOOLEAN :
           LoadCascades(frontal_loads, profile_loads)
    \/ \E outcome \in AudioOutcomes, signal \in AudioSignals :
           AnalyseAudio(outcome, signal)
    \/ \E frontal_faces \in FrontalOutputs, profile_faces \in ProfileOutputs,
          mirrored_faces \in MirroredOutputs, motion \in RunMotionInputs :
           DetectedFrame(frontal_faces, profile_faces, mirrored_faces, motion)
    \/ UnsampledFrame
    \/ EndOfStream
    \/ LoopException
    \/ \E ok \in BOOLEAN : Mux(ok)
    \/ ReplaceBaseClip

SpecRun == InitRun /\ [][NextRun]_vars

\* The steps the call takes when nothing raises inside the frame loop: the
\* statements of smart_follow_crop in their order, one frame per iteration
\* of the loop.
RunStep ==
    \/ \E opened \in BOOLEAN : OpenSource(opened)
    \/ \E clip \in RunSourceClips : ReadDims(clip)
    \/ \E opened \in BOOLEAN : OpenSink(opened)
    \/ \E frontal_loads \in BOOLEAN, profile_loads \in BOOLEAN :
           LoadCascades(frontal_loads, profile_loads)
    \/ \E outcome \in AudioOutcomes, signal \in AudioSignals :
           AnalyseAudio(outcome, signal)
    \/ \E frontal_faces \in FrontalOutputs, profile_faces \in ProfileOutputs,
          mirrored_faces \in MirroredOutputs, motion \in RunMotionInputs :
           DetectedFrame(frontal_faces, profile_faces, mirrored_faces, motion)
    \/ UnsampledFrame
    \/ EndOfStream
    \/ \E ok \in BOOLEAN : Mux(ok)
    \/ ReplaceBaseClip

\* The call as a sequential program: it does not stop while it has a next
\* statement to run.  An exception inside the loop may or may not occur.
\* The clip is finite: cap.read() delivers at most MaxFrames frames.
SpecRunFair == InitRun /\ [][NextRun]_vars /\ WF_vars(RunStep)

\* The last frame processed was a sampled one.
LastFrameSampled == frame_idx > 0 /\ (frame_idx - 1) % step = 0

\* Every division of the model is exact: the fractions the engine computes
\* are represented without rounding.
ExactArithmetic ==
    /\ Scale % 2 = 0
    /\ (cfg.max_move_px_per_sec * Scale) % Max2(1, fps) = 0
    /\ last_det # None =>
          /\ (cfg.smooth.num * (last_det[1] - cx_s)) % cfg.smooth.den = 0 \/ frame_idx = MaxFrames
          /\ (cfg.smooth.num * (last_det[2] - cy_s)) % cfg.smooth.den = 0 \/ frame_idx = MaxFrames


\* ------------------------------------------------------------------------
\* Claims on the stabilizer
\* ------------------------------------------------------------------------

\* The smoothed center, in 1/Scale pixels, the engine starts from.
CenterX == in_w * (Scale \div 2)

CenterY == in_h * (Scale \div 2)

\* The centers of the faces the detector returned on the last sampled frame.
FaceCenters ==
    { <<face_center(faces[i][1], faces[i][3]), face_center(faces[i][2], faces[i][4])>> :
        i \in 1..Len(faces) }

\* C1: on every frame the smoothed center moves by at most
\* max_move_px_per_sec / fps pixels on each axis between the start and the
\* end of the frame's update.
C1_SpeedClamp ==
    /\ Abs(cx_s - h_prev.cx_s) <= max_per_frame(cfg.max_move_px_per_sec, fps)
    /\ Abs(cy_s - h_prev.cy_s) <= max_per_frame(cfg.max_move_px_per_sec, fps)

\* C2: two consecutive target switches of a clip are at least
\* min_switch_frames frames apart.
C2_MinSwitchInterval ==
    \A k \in 1..(Len(h_switch_frames) - 1) :
        h_switch_frames[k + 1] - h_switch_frames[k] >= cfg.min_switch_frames

\* C2 witness: a second switch exactly min_switch_frames = 3 frames after
\* the first.
C2_Witness ==
    /\ cfg.min_switch_frames = 3
    /\ Len(h_switch_frames) >= 2
    /\ h_switch_frames[2] - h_switch_frames[1] = 3

\* C3: on every frame and for each axis on its own, when the target is
\* strictly less than deadzone_px from the smoothed center on that axis, the
\* frame leaves that axis of the smoothed center unchanged.
C3_Deadzone ==
    (frame_idx > 0 /\ last_det # None) =>
        /\ Abs(last_det[1] - h_prev.cx_s) < cfg.deadzone_px * Scale => cx_s = h_prev.cx_s
        /\ Abs(last_det[2] - h_prev.cy_s) < cfg.deadzone_px * Scale => cy_s = h_prev.cy_s

\* C3 witness: a frame that found the target inside the deadzone on x, short
\* of the target, and outside it on y: x stayed, y moved.
C3_Witness ==
    /\ frame_idx > 0
    /\ last_det # None
    /\ Abs(last_det[1] - h_prev.cx_s) < cfg.deadzone_px * Scale
    /\ last_det[1] # h_prev.cx_s
    /\ cx_s = h_prev.cx_s
    /\ cy_s # h_prev.cy_s

\* C4: the crop origin of every frame written lies in
\* 0 .. in_w - crop_w and 0 .. in_h - crop_h.
C4_CropInsideSource ==
    frame_idx > 0 =>
        /\ 0 <= x0 /\ x0 <= in_w - crop_w
        /\ 0 <= y0 /\ y0 <= in_h - crop_h

\* C4 witness: a frame whose smoothed center puts the unclamped origin left
\* of the source, and one that puts it below the source's last row.
C4_Witness ==
    /\ frame_idx > 0
    /\ \/ RoundHalfEven(2 * cx_s - crop_w * Scale, 2 * Scale) < 0 /\ x0 = 0
       \/ RoundHalfEven(2 * cy_s - crop_h * Scale, 2 * Scale) > in_h - crop_h
            /\ y0 = in_h - crop_h

\* C5: a frame that starts with hold > 0 leaves the tracked target as it
\* was, whatever the detector returns.
C5_CoastingKeepsTarget ==
    (frame_idx > 0 /\ h_prev.hold > 0) => last_det = h_prev.last_det

\* C5 witness: a sampled frame that started with hold > 0 and with the
\* switch interval elapsed, on which the detector returned only faces other
\* than the tracked one.
C5_Witness ==
    /\ LastFrameSampled
    /\ h_prev.hold > 0
    /\ h_prev.frames_since_switch >= cfg.min_switch_frames
    /\ faces # << >>
    /\ last_det \notin FaceCenters

\* C6: on a sampled frame that starts with hold = 0: with at least one
\* detected face and frames_since_switch >= min_switch_frames the scorer's
\* candidate becomes the tracked target, hold becomes hold_frames and
\* frames_since_switch restarts from 0 (it reads 1 once the frame has been
\* counted); otherwise the tracked target is kept.
C6_OpenToSwitch ==
    (LastFrameSampled /\ h_prev.hold = 0) =>
        IF faces # << >> /\ h_prev.frames_since_switch >= cfg.min_switch_frames
        THEN /\ candidate \in FaceCenters
             /\ last_det = candidate
             /\ hold = cfg.hold_frames
             /\ frames_since_switch = 1
        ELSE last_det = h_prev.last_det

\* C6 witness: a sampled frame that started with hold = 0 and a tracked
\* target, and switched to another one.
C6_Witness ==
    /\ LastFrameSampled
    /\ h_prev.hold = 0
    /\ faces # << >>
    /\ h_prev.frames_since_switch >= cfg.min_switch_frames
    /\ h_prev.last_det # None
    /\ last_det # h_prev.last_det

\* C7: after a switch, while every sampled frame since has been without a
\* face, the tracked target is the accepted candidate for (at least) the
\* first hold_frames such frames, and the smoothed center does not move
\* away from it on either axis.
C7_TargetPersists ==
    (h_empty_run >= 0 /\ h_empty_run <= cfg.hold_frames) =>
        /\ last_det = h_accepted
        /\ Abs(last_det[1] - cx_s) <= Abs(last_det[1] - h_prev.cx_s)
        /\ Abs(last_det[2] - cy_s) <= Abs(last_det[2] - h_prev.cy_s)

\* C7 witness: hold_frames = 2 sampled frames without a face after a
\* switch, the target still the accepted one and the smoothed center off the
\* frame center.
C7_Witness ==
    /\ cfg.hold_frames = 2
    /\ h_empty_run = 2
    /\ last_det = h_accepted
    /\ cx_s # CenterX

\* C8: a sampled frame on which the detector returns no face leaves
\* hold = max(0, hold - 1) and the tracked target as it was.
C8_NoCandidateCoastsDown ==
    (LastFrameSampled /\ faces = << >>) =>
        /\ hold = Max2(0, h_prev.hold - 1)
        /\ last_det = h_prev.last_det

\* C8 witness: such a frame with a tracked target and hold > 0 at its start.
C8_Witness ==
    /\ LastFrameSampled
    /\ faces = << >>
    /\ h_prev.hold > 0
    /\ hold = h_prev.hold - 1
    /\ last_det # None

\* C9: for every config, the first sampled frame with a detected face
\* accepts its candidate: it is the first frame to switch.
C9_FirstCandidateAccepted ==
    h_first_face >= 0 =>
        /\ h_switch_frames # << >>
        /\ h_switch_frames[1] = h_first_face

\* C10: while the detector has never returned a face, the smoothed center is
\* the frame center and the crop origin is that of the static center crop.
C10_StaticCenterCrop ==
    h_first_face = -1 =>
        /\ cx_s = CenterX
        /\ cy_s = CenterY
        /\ frame_idx > 0 =>
              /\ x0 = RoundHalfEven(in_w - crop_w, 2)
              /\ y0 = RoundHalfEven(in_h - crop_h, 2)

\* C10 witness: a whole clip without a detected face.
C10_Witness ==
    /\ pc = "released"
    /\ frame_idx = MaxFrames
    /\ h_first_face = -1
    /\ x0 = RoundHalfEven(in_w - crop_w, 2)

\* ------------------------------------------------------------------------
\* The crop size, as a function of the source size and the target aspect
\* ------------------------------------------------------------------------

\* Largest side of the small sources.
MaxSide == 8

\* Source sizes: every small size, and the sizes of real clips.
GeomSizes ==
    ((1..MaxSide) \X (1..MaxSide)) \cup { <<1920, 1080>>, <<1080, 1920>>, <<16, 16>> }

\* The arguments the crop size depends on: the three canonical aspects and
\* any other string, with an output width and height that are given or 0.
GeomConfigs ==
    [ target_aspect       : {"9:16", "1:1", "16:9", "source"},
      out_w               : {0, 2, 1080},
      out_h               : {0, 1920},
      sample_fps          : {2},
      smooth              : {[num |-> 1, den |-> 2]},
      hold_frames         : {0},
      mode                : {"face"},
      deadzone_px         : {0},
      min_switch_frames   : {0},
      max_move_px_per_sec : {320},
      exclude_right_pct   : {0} ]

\* The source is open and reported a positive size; the crop size is not
\* computed yet.
InitGeom ==
    /\ pc = "geometry"
    /\ cfg \in GeomConfigs
    /\ \E size \in GeomSizes :
        /\ in_w = size[1]
        /\ in_h = size[2]
    /\ fps = 30
    /\ crop_w = 0
    /\ crop_h = 0
    /\ step = 0
    /\ mode = cfg.mode
    /\ rms = None
    /\ thr = None
    /\ cx_s = 0
    /\ cy_s = 0
    /\ frame_idx = 0
    /\ last_det = None
    /\ hold = 0
    /\ frames_since_switch = 0
    /\ faces = << >>
    /\ candidate = None
    /\ x0 = 0
    /\ y0 = 0
    /\ out_w = ForceEven(cfg.out_w)
    /\ out_h = ForceEven(cfg.out_h)
    /\ profile = None
    /\ cap = "open"
    /\ writer = "none"
    /\ wav_tmp = None
    /\ files = {"clip_mp4"}
    /\ written = None
    /\ err = ""
    /\ h_det = NoDetection
    /\ h_audio_failed = FALSE
    /\ h_loaded = None
    /\ h_prev = Snapshot
    /\ h_switch_frames = << >>
    /\ h_first_face = -1
    /\ h_accepted = None
    /\ h_empty_run = -1
    /\ h_detect_frames = << >>
    /\ h_written_log = << >>
    /\ AsideIdle

\* Lines 297-312: the target ratio and the crop size.
ComputeCrop ==
    /\ pc = "geometry"
    /\ pc' = "cropped"
    /\ \E size \in { crop_size(in_w, in_h,
                               target_ar(cfg.target_aspect, out_w, out_h, in_w, in_h)) } :
          /\ crop_w' = size.crop_w
          /\ crop_h' = size.crop_h
    /\ UNCHANGED << cfg, in_w, in_h, fps, step, mode, rms, thr, out_w, out_h,
                    profile, h_audio_failed, h_loaded, stabilizer, resources,
                    history, aside,
                    h_det >>

NextGeom == ComputeCrop

SpecGeom == InitGeom /\ [][NextGeom]_vars

\* The target ratio in force, as the fraction num / den.
TargetRatio == target_ar(cfg.target_aspect, out_w, out_h, in_w, in_h)

\* v is the integer nearest to n / d, the even one of the two when n / d is
\* halfway between them.
IsRounded(v, n, d) ==
    /\ 2 * Abs(v * d - n) <= d
    /\ (2 * Abs(v * d - n) = d) => v % 2 = 0

\* C14: if the source aspect exceeds the target aspect the crop has the
\* source height and the width round(height x ratio), otherwise it has the
\* source width and the height round(width / ratio); a 1920 x 1080 source
\* with target 9:16 gives 608 x 1080.
C14_CropSizeFormula ==
    pc = "cropped" =>
        /\ IF in_w * TargetRatio.den > TargetRatio.num * in_h
           THEN /\ crop_h = in_h
                /\ IsRounded(crop_w, crop_h * TargetRatio.num, TargetRatio.den)
           ELSE /\ crop_w = in_w
                /\ IsRounded(crop_h, crop_w * TargetRatio.den, TargetRatio.num)
        /\ (in_w = 1920 /\ in_h = 1080 /\ cfg.target_aspect = "9:16")
               => (crop_w = 608 /\ crop_h = 1080)

\* The crop of a 1920 x 1080 source for 9:16 is computed.
C14_Witness ==
    /\ pc = "cropped"
    /\ in_w = 1920
    /\ in_h = 1080
    /\ cfg.target_aspect = "9:16"
    /\ crop_w = 608

\* The crop has the target ratio up to rounding: one side is the source's,
\* the other is within half a pixel of what the ratio gives.
RatioUpToRounding ==
    \/ /\ crop_h = in_h
       /\ 2 * Abs(crop_w * TargetRatio.den - crop_h * TargetRatio.num) <= TargetRatio.den
    \/ /\ crop_w = in_w
       /\ 2 * Abs(crop_h * TargetRatio.num - crop_w * TargetRatio.den) <= TargetRatio.num

\* C15: for every positive source size and every target aspect (canonical
\* or any other, which the documentation calls "match source"),
\* 1 <= crop_w <= in_w and 1 <= crop_h <= in_h, and crop_w / crop_h is the
\* target ratio up to rounding.
C15_CropFitsSource ==
    pc = "cropped" =>
        /\ 1 <= crop_w /\ crop_w <= in_w
        /\ 1 <= crop_h /\ crop_h <= in_h
        /\ RatioUpToRounding

\* ------------------------------------------------------------------------
\* The whole call: failures, resources, detector
\* ------------------------------------------------------------------------

\* No mouth moves.
NoMotion == [ b \in RunFaceBoxes |-> 0 ]

\* The candidate the face-mode formula (area minus distance penalty) picks
\* among the faces of the last sampled frame, from the center that frame
\* started with.
FaceModePick ==
    pick_face(faces, NoMotion, "face", None, None, frame_idx - 1, in_w, in_h,
              h_prev.cx_s, h_prev.cy_s)

\* The exceptions that can end a call once its frame loop is entered.
LateErrors == { "exception in the frame loop", "ffmpeg failed" }

\* C11: when speaker mode is requested and the audio extraction or analysis
\* raises, the mode in force is face and there is no loudness signal and no
\* threshold; the call does not fail for it (it is in the frame loop or past
\* it, or an exception of the frame loop ended it); and every candidate is
\* the one the face-mode formula picks.
C11_AudioFailureDowngrades ==
    h_audio_failed =>
        /\ cfg.mode = "speaker"
        /\ mode = "face"
        /\ rms = None
        /\ thr = None
        /\ \/ pc \in {"loop", "released", "done", "renamed"}
           \/ pc = "failed" /\ err \in LateErrors
        /\ (LastFrameSampled /\ open_to_switch(faces, h_prev.hold))
               => candidate = FaceModePick

\* An audio failure, then a clip processed to its end with a candidate picked.
C11_Witness ==
    /\ h_audio_failed
    /\ pc = "done"
    /\ frame_idx = MaxFrames
    /\ LastFrameSampled
    /\ candidate # None


\* The call is over: it returned or it raised.
CallOver == pc \in {"done", "failed", "renamed"}

\* C12: on every exit path after the source was opened (normal completion,
\* invalid dimensions, sink open failure, primary detector unavailable, an
\* exception of the frame loop), when the call is over the source is
\* released, the sink is not left open, and the temporary audio file is
\* gone.
C12_ResourcesReleased ==
    (CallOver /\ cap # "closed") =>
        /\ cap = "released"
        /\ writer # "open"
        /\ "wav_tmp" \notin files

\* The source could not be opened, reported a zero width or height, or the
\* sink could not be opened.
SourceOrSinkError ==
    /\ pc = "failed"
    /\ err \in { "Could not open clip for smart crop",
                  "Invalid input dimensions for smart crop",
                  "Could not open VideoWriter (mp4v)." }

\* C13: when the source cannot be opened or reports a zero width or height,
\* or the sink cannot be opened, the call raises and nothing the job
\* produced for the clip remains: neither the clip nor the temporary video
\* file.
C13_PartialOutputDiscarded ==
    SourceOrSinkError => files \cap {"clip_mp4", "tmp_video", "out_clip"} = {}

\* The source was opened and has reported its size.
DimsRead == cap # "closed" /\ pc \notin {"open", "dims"}

\* C16: when the opened source reports a width or a height of zero, the
\* call raises, the source is released, no sink and no temporary video
\* exist, and no frame was processed.
C16_InvalidDimsFailEarly ==
    (DimsRead /\ (in_w = 0 \/ in_h = 0)) =>
        /\ pc = "failed"
        /\ err = "Invalid input dimensions for smart crop"
        /\ cap = "released"
        /\ writer = "none"
        /\ "tmp_video" \notin files
        /\ frame_idx = 0
        /\ written = None

\* A source of height zero was rejected.
C16_Witness ==
    /\ DimsRead
    /\ in_w > 0
    /\ in_h = 0
    /\ pc = "failed"
    /\ cap = "released"

\* C17: every frame written to the sink has an even width and height, equal
\* to the configured output size.
C17_FrameSizeAsConfigured ==
    written # None =>
        /\ written[1] % 2 = 0
        /\ written[2] % 2 = 0
        /\ written = << cfg.out_w, cfg.out_h >>

\* C19: when the frontal cascade cannot be loaded the call raises; when
\* only the profile cascade cannot be loaded, the loading raises nothing,
\* the fallback pass never runs, and the faces of a sampled frame are those
\* of the frontal pass (less the excluded right side).
C19_DetectorAvailability ==
    h_loaded # None =>
        /\ ~h_loaded.frontal =>
               /\ pc = "failed"
               /\ err = "Could not load OpenCV frontal face cascade."
        /\ (h_loaded.frontal /\ ~h_loaded.profile) =>
               /\ err # "Could not load OpenCV frontal face cascade."
               /\ pc = "failed" => err \in LateErrors
               /\ profile = None
               /\ ~h_det.fallback_ran
               /\ LastFrameSampled =>
                      faces = exclude_right(h_det.frontal, in_w, cfg.exclude_right_pct)

\* Without the profile cascade, a clip was processed to its end and the
\* frontal pass found nothing on its last sampled frame.
C19_Witness ==
    /\ h_loaded # None
    /\ h_loaded.frontal
    /\ ~h_loaded.profile
    /\ pc = "done"
    /\ frame_idx = MaxFrames
    /\ LastFrameSampled
    /\ h_det.frontal = << >>
    /\ faces = << >>

\* The cutoff of the excluded right side, in 1/Scale pixels.
Cutoff == (in_w * (100 - cfg.exclude_right_pct) * Scale) \div 100

\* C20: with an exclusion fraction above 0, no face the detector returned
\* and no tracked target has its horizontal center at or beyond
\* in_w x (1 - f); with a fraction of 0 the detector returns every face
\* found.
C20_ExcludedRightSide ==
    pc \in {"loop", "released", "done", "renamed"} =>
        /\ cfg.exclude_right_pct > 0 =>
               /\ \A center \in FaceCenters : center[1] < Cutoff
               /\ last_det # None => last_det[1] < Cutoff
        /\ (cfg.exclude_right_pct = 0 /\ LastFrameSampled) => faces = h_det.found

\* With a quarter of the frame excluded, two faces were found, the one on
\* the right was discarded and the other is tracked.
C20_Witness ==
    /\ pc = "loop"
    /\ cfg.exclude_right_pct = 25
    /\ LastFrameSampled
    /\ h_det.found = <<FaceA, FaceB>>
    /\ faces = <<FaceA>>
    /\ last_det # None

\* ------------------------------------------------------------------------
\* The candidate scorer on its own: one call of _pick_face on a list of
\* faces, from a state of the tracker.
\* ------------------------------------------------------------------------

\* A face larger than FaceA and FaceB, at the center of a 16 x 16 frame.
FaceLarge == <<4, 4, 8, 8>>

ScoreBoxes == {FaceA, FaceB, FaceLarge}

\* Lists of one to three different faces, in every order.
ScoreFaceLists ==
    { full_faces \in UNION { [1..n -> ScoreBoxes] : n \in 1..3 } :
        \A i, j \in 1..Len(full_faces) : i # j => full_faces[i] # full_faces[j] }

\* Loudness signals of three frames and of one frame, the shortest
\* _load_wav_rms_per_frame returns.
ScoreSignals == AudioSignals \cup { <<50>> }

\* Thresholds, in 1/2,000,000 of full amplitude: one the loudest frame of
\* the signal just reaches, and one no frame reaches.
ScoreThresholds == { <<100000>>, <<160000>> }

\* The smoothed center when the scorer is called: the center of the frame,
\* or the center of FaceA.
ScoreCenters ==
    { <<face_center(4, 8), face_center(4, 8)>>,
      <<face_center(1, 4), face_center(0, 4)>> }

\* The values of the variables a specification of one function leaves
\* unused.
Unused ==
    /\ crop_w = 0
    /\ crop_h = 0
    /\ step = 0
    /\ last_det = None
    /\ hold = 0
    /\ frames_since_switch = 0
    /\ x0 = 0
    /\ y0 = 0
    /\ out_w = 0
    /\ out_h = 0
    /\ profile = None
    /\ cap = "closed"
    /\ writer = "none"
    /\ wav_tmp = None
    /\ files = {}
    /\ written = None
    /\ err = ""
    /\ h_det = NoDetection
    /\ h_audio_failed = FALSE
    /\ h_loaded = None
    /\ h_prev = Snapshot
    /\ h_switch_frames = << >>
    /\ h_first_face = -1
    /\ h_accepted = None
    /\ h_empty_run = -1
    /\ h_detect_frames = << >>
    /\ h_written_log = << >>
    /\ mux_calls = 0

\* A sampled frame of the loop on which _pick_face is about to be called:
\* faces were detected, and in speaker mode the audio was analysed; the
\* signal has three frames and the clip up to four.
InitScore ==
    /\ pc = "score"
    /\ cfg = None
    /\ in_w = 16
    /\ in_h = 16
    /\ fps = 4
    /\ \/ /\ mode = "face"
          /\ rms = None
          /\ thr = None
       \/ /\ mode = "speaker"
          /\ rms \in ScoreSignals
          /\ thr \in ScoreThresholds
    /\ \E center \in ScoreCenters :
        /\ cx_s = center[1]
        /\ cy_s = center[2]
    /\ frame_idx \in 0..3
    /\ faces \in ScoreFaceLists
    /\ h_motion \in [ScoreBoxes -> MotValues]
    /\ candidate = None
    /\ h_scores = None
    /\ h_rms_idx = None
    /\ ClippingIdle
    /\ request = None
    /\ engine_kwargs = None
    /\ http_status = 0
    /\ credits = 0
    /\ AccountIdle
    /\ Unused

\* candidate = _pick_face(faces, gray_full)
PickFace ==
    /\ pc = "score"
    /\ pc' = "scored"
    /\ candidate' = pick_face(faces, h_motion, mode, rms, thr, frame_idx,
                              in_w, in_h, cx_s, cy_s)
    /\ h_scores' = face_scores(faces, h_motion, mode, rms, thr, frame_idx,
                               in_w, in_h, cx_s, cy_s)
    /\ h_rms_idx' = IF mode = "speaker" /\ rms # None /\ thr # None
                    THEN << rms_index(rms, frame_idx) >>
                    ELSE None
    /\ UNCHANGED << setup, resources, history, h_det, cx_s, cy_s, frame_idx,
                    last_det, hold, frames_since_switch, faces, x0, y0,
                    written, mux_calls, request, engine_kwargs, http_status,
                    credits, h_motion, account, clipping >>

NextScore == PickFace

SpecScore == InitScore /\ [][NextScore]_vars

\* The score s is at most the score t.
ScoreAtMost(s, t) ==
    (s.a - t.a) <= ((40 * (s.d - t.d)) \div (Scale * Scale))

\* The center of the i-th face of the list.
CenterOf(i) ==
    << face_center(faces[i][1], faces[i][3]), face_center(faces[i][2], faces[i][4]) >>

\* The index of the face the scorer should return: no face scores higher,
\* and every face before it scores lower.
IsFirstMaximal(k) ==
    /\ \A j \in 1..Len(faces) : ScoreAtMost(h_scores[j], h_scores[k])
    /\ \A j \in 1..(k - 1) : ~ScoreAtMost(h_scores[k], h_scores[j])

\* C21: for every non-empty list of faces the scorer returns the center of
\* a face whose score is maximal, and of the first such face in the list
\* when several share the maximal score.
C21_FirstMaximalWins ==
    pc = "scored" =>
        \E k \in 1..Len(faces) : IsFirstMaximal(k) /\ candidate = CenterOf(k)

\* C21 witness: FaceA and FaceB score the same, FaceB comes first in the
\* list and its center is returned.
C21_Witness ==
    /\ pc = "scored"
    /\ faces = <<FaceB, FaceA>>
    /\ ScoreAtMost(h_scores[1], h_scores[2])
    /\ ScoreAtMost(h_scores[2], h_scores[1])
    /\ candidate = CenterOf(1)

\* The loudness of the frame reaches the threshold; a frame past the end
\* of the signal takes the loudness of the signal's last frame.
Voiced == 2000 * rms[Min2(frame_idx, Len(rms) - 1) + 1] >= thr[1]

\* The motion under the mouth of a face: 0 on the first frame of the clip.
MouthMotion(box) == IF frame_idx = 0 THEN 0 ELSE h_motion[box]

\* Squared distance from the center of the i-th face to the smoothed
\* center, in 1/Scale^2 square pixels.
SquaredDistance(i) ==
    (CenterOf(i)[1] - cx_s) * (CenterOf(i)[1] - cx_s)
        + (CenterOf(i)[2] - cy_s) * (CenterOf(i)[2] - cy_s)

\* C22: the score of each face is, in face mode, area - 0.0008 x the
\* squared distance from the face's center to the smoothed center, and in
\* speaker mode mouthMotion x (8 if the frame's loudness reaches the
\* threshold, else 2) + area x 0.00002 - 0.0008 x that squared distance,
\* with mouthMotion = 0 on the first frame.  A score is the pair [a, d]
\* standing for (a - 40 x d / Scale^2) / 50000.
C22_ScoreFormula ==
    pc = "scored" =>
        \A i \in 1..Len(faces) :
            LET area == faces[i][3] * faces[i][4]
            IN  /\ h_scores[i].d = SquaredDistance(i)
                /\ mode = "face" => h_scores[i].a = 50000 * area
                /\ mode = "speaker" =>
                       h_scores[i].a = 50000 * MouthMotion(faces[i])
                                             * (IF Voiced THEN 8 ELSE 2) + area

\* C22 witness: speaker mode, a frame after the first whose loudness just
\* reaches the threshold, a face with motion under its mouth away from the
\* smoothed center; its score is 1 x 8 + 16 x 0.00002 less the bias.
C22_Witness ==
    /\ pc = "scored"
    /\ mode = "speaker"
    /\ frame_idx = 1
    /\ thr = <<100000>>
    /\ faces[1] = FaceB
    /\ h_motion[FaceB] = 1
    /\ h_scores[1].a = 400016
    /\ h_scores[1].d > 0

\* ------------------------------------------------------------------------
\* The voice-activity threshold on its own: one call of _rms_threshold on
\* a signal from _load_wav_rms_per_frame.
\* ------------------------------------------------------------------------

\* Longest signal, in frames.
MaxSignalLen == 4

\* Loudness values, in 1/1000 of full amplitude: silence, values around the
\* lower bound of the threshold, within its range and above it.
LoudnessValues == {0, 5, 30, 200}

\* _load_wav_rms_per_frame returns at least one frame.
ThresholdSignals == UNION { [1..n -> LoudnessValues] : n \in 1..MaxSignalLen }

InitThreshold ==
    /\ pc = "threshold"
    /\ cfg = None
    /\ in_w = 16
    /\ in_h = 16
    /\ fps = 4
    /\ mode = "speaker"
    /\ rms \in ThresholdSignals
    /\ thr = None
    /\ cx_s = 0
    /\ cy_s = 0
    /\ frame_idx = 0
    /\ faces = << >>
    /\ candidate = None
    /\ AsideIdle
    /\ Unused

\* thr = _rms_threshold(rms)
ComputeThreshold ==
    /\ pc = "threshold"
    /\ pc' = "thresholded"
    /\ thr' = rms_threshold(rms)
    /\ UNCHANGED << cfg, in_w, in_h, fps, crop_w, crop_h, step, mode, rms,
                    out_w, out_h, profile, h_audio_failed, h_loaded,
                    resources, stabilizer, history, h_det, aside >>

NextThreshold == ComputeThreshold

SpecThreshold == InitThreshold /\ [][NextThreshold]_vars

\* The k-th smallest value of the signal.
OrderStatistic(k) ==
    CHOOSE v \in { rms[i] : i \in 1..Len(rms) } :
        /\ Cardinality({ i \in 1..Len(rms) : rms[i] < v }) < k
        /\ Cardinality({ i \in 1..Len(rms) : rms[i] <= v }) >= k

\* Twice the median of the signal.
MedianTwice ==
    LET n == Len(rms)
    IN  IF n % 2 = 1 THEN 2 * OrderStatistic((n + 1) \div 2)
        ELSE OrderStatistic(n \div 2) + OrderStatistic(n \div 2 + 1)

\* Ten times the 90th percentile of the signal: the value at rank
\* 0.9 x (n - 1) of the ordered signal, interpolated linearly.
Percentile90Tenfold ==
    LET rank10 == 9 * (Len(rms) - 1)
        below  == rank10 \div 10 + 1
        part   == rank10 % 10
    IN  IF part = 0 THEN 10 * OrderStatistic(below)
        ELSE (10 - part) * OrderStatistic(below) + part * OrderStatistic(below + 1)

\* median x 2.2 + 90th percentile x 0.25, in 1/2,000,000 of full amplitude.
UnclampedThreshold == 2200 * MedianTwice + 50 * Percentile90Tenfold

\* C23: for every loudness signal the threshold equals
\* clamp(median x 2.2 + 90th percentile x 0.25, 0.015, 0.08), and so lies
\* in [0.015, 0.08].
C23_ThresholdClamped ==
    pc = "thresholded" =>
        /\ thr[1] = (IF UnclampedThreshold < 30000 THEN 30000
                     ELSE IF UnclampedThreshold > 160000 THEN 160000
                     ELSE UnclampedThreshold)
        /\ thr[1] >= 30000
        /\ thr[1] <= 160000

\* C23 witness: a signal of an even number of frames whose threshold lies
\* strictly between the two bounds.
C23_Witness ==
    /\ pc = "thresholded"
    /\ Len(rms) = 4
    /\ thr[1] = UnclampedThreshold
    /\ thr[1] > 30000
    /\ thr[1] < 160000

\* ------------------------------------------------------------------------
\* Claims on the frame loop
\* ------------------------------------------------------------------------

\* An integer nearest to fps / sample_fps, the even one of two.
IsNearest(n) ==
    /\ 2 * Abs(n * cfg.sample_fps - fps) <= cfg.sample_fps
    /\ 2 * Abs(n * cfg.sample_fps - fps) = cfg.sample_fps => n % 2 = 0

\* max(1, round(frame rate / sample rate))
Stride ==
    IF \E n \in 1..fps : IsNearest(n) THEN CHOOSE n \in 1..fps : IsNearest(n) ELSE 1

\* The frames processed so far whose index is a multiple of the stride.
StrideFrames == { i \in 0..(frame_idx - 1) : i % Stride = 0 }

\* C24: the detector runs exactly on the frames whose index is a multiple
\* of stride = max(1, round(frame rate / sample rate)), once each and in
\* order; any other frame leaves hold and the tracked target as they were.
C24_DetectorOnStrideFrames ==
    pc = "loop" =>
        /\ { h_detect_frames[k] : k \in 1..Len(h_detect_frames) } = StrideFrames
        /\ Len(h_detect_frames) = Cardinality(StrideFrames)
        /\ \A k \in 1..(Len(h_detect_frames) - 1) :
               h_detect_frames[k] < h_detect_frames[k + 1]
        /\ (frame_idx > 0 /\ (frame_idx - 1) % Stride # 0) =>
               /\ hold = h_prev.hold
               /\ last_det = h_prev.last_det

\* C24 witness: with a stride of 2 the detector ran on frames 0 and 2 of
\* four, and frame 3 left a running hold and the target alone.
C24_Witness ==
    /\ pc = "loop"
    /\ Stride = 2
    /\ frame_idx = 4
    /\ h_detect_frames = <<0, 2>>
    /\ hold > 0
    /\ hold = h_prev.hold
    /\ last_det # None

\* The distance from the center the frame started at to the target, on
\* axis i, zeroed inside the deadzone; in 1/Scale pixels.
Delta(i) ==
    LET d == last_det[i] - (IF i = 1 THEN h_prev.cx_s ELSE h_prev.cy_s)
    IN  IF Abs(d) < cfg.deadzone_px * Scale THEN 0 ELSE d

\* The last frame processed accepted a new target.
SwitchedOnLastFrame ==
    /\ h_switch_frames # << >>
    /\ h_switch_frames[Len(h_switch_frames)] = frame_idx - 1

\* C25: on every frame, sampled or not, once a target is tracked the
\* smoothed center moves by smooth x delta on each axis, delta being zero
\* inside the deadzone; and frames_since_switch grows by exactly 1 at the
\* end of every frame, from 0 on a frame that accepted a new target.
C25_SmoothStepEveryFrame ==
    (pc = "loop" /\ frame_idx > 0) =>
        /\ last_det # None =>
               /\ cfg.smooth.den * (cx_s - h_prev.cx_s) = cfg.smooth.num * Delta(1)
               /\ cfg.smooth.den * (cy_s - h_prev.cy_s) = cfg.smooth.num * Delta(2)
        /\ frames_since_switch =
               (IF SwitchedOnLastFrame THEN 0 ELSE h_prev.frames_since_switch) + 1

\* C25 witness: a frame on which no detection ran moved the center half of
\* the way to the target, after the frame before it had accepted the
\* target.
C25_Witness ==
    /\ pc = "loop"
    /\ frame_idx = 2
    /\ ~LastFrameSampled
    /\ last_det # None
    /\ cfg.smooth = [num |-> 1, den |-> 2]
    /\ Delta(1) # 0
    /\ 2 * (cx_s - h_prev.cx_s) = Delta(1)
    /\ h_switch_frames = <<0>>
    /\ frames_since_switch = 2

\* C26: one frame is written for each frame read, in the order of the
\* source, and the crop of a frame is taken around the smoothed center as
\* it is after that frame's own update of the stabilizer.
C26_OneFramePerFrameRead ==
    pc = "loop" =>
        /\ Len(h_written_log) = frame_idx
        /\ \A k \in 1..Len(h_written_log) : h_written_log[k] = k - 1
        /\ frame_idx > 0 =>
               /\ x0 = Max2(0, Min2(in_w - crop_w,
                                    RoundHalfEven(2 * cx_s - crop_w * Scale, 2 * Scale)))
               /\ y0 = Max2(0, Min2(in_h - crop_h,
                                    RoundHalfEven(2 * cy_s - crop_h * Scale, 2 * Scale)))

\* C26 witness: every frame of the clip was written, and the last crop
\* differs from the one around the center that frame started from.
C26_Witness ==
    /\ pc = "loop"
    /\ frame_idx = MaxFrames
    /\ Len(h_written_log) = MaxFrames
    /\ y0 # Max2(0, Min2(in_h - crop_h,
                         RoundHalfEven(2 * h_prev.cy_s - crop_h * Scale, 2 * Scale)))

\* ------------------------------------------------------------------------
\* Claims on the end of the call
\* ------------------------------------------------------------------------

\* C27: the muxer is called at most once for a clip, only when the frame
\* loop is over, every frame read has been written and the source and the
\* sink are released; it is not called when the frame loop ended with an
\* exception.
C27_MuxOnceAfterLoop ==
    /\ mux_calls <= 1
    /\ mux_calls = 1 =>
           /\ pc \in {"done", "failed", "renamed"}
           /\ err = (IF pc = "failed" THEN "ffmpeg failed" ELSE "")
           /\ writer = "released"
           /\ cap = "released"
           /\ Len(h_written_log) = frame_idx
    /\ (pc = "failed" /\ err # "ffmpeg failed") => mux_calls = 0
    /\ pc \in {"done", "renamed"} => mux_calls = 1

\* C27 witness: a clip whose frames were all written and whose sink was
\* released was muxed, once.
C27_Witness ==
    /\ pc = "done"
    /\ mux_calls = 1
    /\ frame_idx = MaxFrames
    /\ Len(h_written_log) = MaxFrames
    /\ writer = "released"
    /\ "out_clip" \in files

\* C29: for every finite clip the frame loop terminates: once the loop is
\* entered, the call reaches the muxer or ends with an error.
C29_LoopTerminates ==
    (pc = "loop") ~> (mux_calls = 1 \/ pc = "failed")

\* C29 witness: the source delivered MaxFrames frames, each was processed
\* by one iteration, and the loop was left; the muxer has not run yet.
C29_Witness ==
    /\ pc = "released"
    /\ mux_calls = 0
    /\ frame_idx = MaxFrames
    /\ Len(h_written_log) = MaxFrames
    /\ err = ""

\* ------------------------------------------------------------------------
\* The caller of the engine: api_create_job (main.py)
\* ------------------------------------------------------------------------

\* JOB_COST = 1
JOB_COST == 1

\* The form fields of a request, inside and outside their domains.  The
\* crop fields are percentages; follow_smooth is the fraction num / den.
ApiRequests ==
    [ clip_len                   : {4, 25},
      max_clips                  : {8, 51},
      out_aspect                 : {"9:16", "4:3"},
      out_w                      : {-2, 1080, 1081},
      out_h                      : {1920},
      crop_mode                  : {"speaker", "zoom"},
      crop_x                     : {-10, 50, 150},
      crop_y                     : {50},
      crop_w                     : {5, 56},
      crop_h                     : {100},
      follow_sample_fps          : {0, 10},
      follow_smooth              : { [num |-> 0, den |-> 1], [num |-> 9, den |-> 50],
                                     [num |-> 5, den |-> 2] },
      follow_hold_frames         : {-1, 24},
      follow_deadzone_px         : {28},
      follow_min_switch_frames   : {16},
      follow_max_move_px_per_sec : {-320, 320} ]

\* The checks of lines 562-577, each of which answers 400.
rejects(form) ==
    \/ form.clip_len < 5 \/ form.clip_len > 120
    \/ form.max_clips < 1 \/ form.max_clips > 50
    \/ form.out_aspect \notin {"9:16", "1:1", "16:9"}
    \/ form.crop_mode \notin {"none", "center", "left", "right", "manual",
                              "smart", "speaker"}
    \/ form.out_w < 0 \/ form.out_h < 0

\* clamp(v, lo, hi): max(lo, min(hi, v))
clamp(v, lo, hi) == Max2(lo, Min2(hi, v))

\* engine_kwargs = dict(...): the crop fields clamped, every other field
\* as it came.
build_engine_kwargs(form) ==
    [ form EXCEPT !.crop_x = clamp(form.crop_x, 0, 100),
                  !.crop_y = clamp(form.crop_y, 0, 100),
                  !.crop_w = clamp(form.crop_w, 10, 100),
                  !.crop_h = clamp(form.crop_h, 10, 100) ]

InitApi ==
    /\ pc = "request"
    /\ request \in ApiRequests
    /\ credits \in {0, 1}
    /\ engine_kwargs = None
    /\ http_status = 0
    /\ cfg = None
    /\ in_w = 16
    /\ in_h = 16
    /\ fps = 4
    /\ mode = "face"
    /\ rms = None
    /\ thr = None
    /\ cx_s = 0
    /\ cy_s = 0
    /\ frame_idx = 0
    /\ faces = << >>
    /\ candidate = None
    /\ h_motion = None
    /\ h_scores = None
    /\ h_rms_idx = None
    /\ ClippingIdle
    /\ AccountIdle
    /\ Unused

\* What api_create_job leaves alone.
engine_state == << setup, resources, stabilizer, history, h_det, mux_calls,
                   h_motion, h_scores, h_rms_idx, account, clipping >>

\* api_create_job up to its call of create_job: the form is checked (400),
\* the crop fields are clamped, the user is charged JOB_COST (402 without
\* credits) and the arguments of create_job are built.
ApiCreateJob ==
    /\ pc = "request"
    /\ IF rejects(request)
       THEN /\ pc' = "rejected"
            /\ http_status' = 400
            /\ UNCHANGED << credits, engine_kwargs >>
       ELSE IF credits < JOB_COST
       THEN /\ pc' = "rejected"
            /\ http_status' = 402
            /\ UNCHANGED << credits, engine_kwargs >>
       ELSE /\ pc' = "accepted"
            /\ credits' = credits - JOB_COST
            /\ engine_kwargs' = build_engine_kwargs(request)
            /\ http_status' = http_status
    /\ UNCHANGED << request, engine_state >>

\* create_job(**engine_kwargs) returns and the handler answers, or it
\* raises.
CreateJobReturns(ok) ==
    /\ pc = "accepted"
    /\ pc' = "answered"
    /\ http_status' = IF ok THEN 200 ELSE 500
    /\ UNCHANGED << request, engine_kwargs, credits, engine_state >>

NextApi ==
    \/ ApiCreateJob
    \/ \E ok \in BOOLEAN : CreateJobReturns(ok)

SpecApi == InitApi /\ [][NextApi]_vars

\* The crop percentages passed to the engine are within [0, 100].
PercentagesClamped ==
    \A v \in { engine_kwargs.crop_x, engine_kwargs.crop_y,
               engine_kwargs.crop_w, engine_kwargs.crop_h } : v >= 0 /\ v <= 100

\* The output sizes passed to the engine are non-negative.
SizesNonNegative == engine_kwargs.out_w >= 0 /\ engine_kwargs.out_h >= 0

\* The output sizes passed to the engine are even.
SizesEven == engine_kwargs.out_w % 2 = 0 /\ engine_kwargs.out_h % 2 = 0

\* The follow parameters passed to the engine are within their domains:
\* the smoothing factor in (0, 1], the sample rate and the maximum pan
\* speed positive, the other three non-negative.
FollowInDomain ==
    /\ engine_kwargs.follow_smooth.num > 0
    /\ engine_kwargs.follow_smooth.num <= engine_kwargs.follow_smooth.den
    /\ engine_kwargs.follow_sample_fps > 0
    /\ engine_kwargs.follow_max_move_px_per_sec > 0
    /\ engine_kwargs.follow_hold_frames >= 0
    /\ engine_kwargs.follow_deadzone_px >= 0
    /\ engine_kwargs.follow_min_switch_frames >= 0

\* C30: every config api_create_job passes to the engine has its numeric
\* fields within their domains: crop percentages in [0, 100], output sizes
\* non-negative and even, smoothing factor in (0, 1], and the other follow
\* parameters non-negative or positive.
C30_ConfigValidated ==
    engine_kwargs # None =>
        /\ PercentagesClamped
        /\ SizesNonNegative
        /\ SizesEven
        /\ FollowInDomain

\* What api_create_job does ensure: percentages and non-negative sizes.
ApiChecksPercentagesAndSigns ==
    engine_kwargs # None => (PercentagesClamped /\ SizesNonNegative)

\* ------------------------------------------------------------------------
\* Properties the stabilizer has without the text stating them
\* ------------------------------------------------------------------------

\* C31: with hold_frames >= 0, hold stays within 0..hold_frames; a frame
\* raises it only by accepting a switch, and then to hold_frames; any other
\* frame leaves it or lowers it.
C31_HoldWithinBounds ==
    /\ hold >= 0
    /\ hold <= cfg.hold_frames
    /\ (pc = "loop" /\ frame_idx > 0) =>
           IF SwitchedOnLastFrame THEN hold = cfg.hold_frames
           ELSE hold <= h_prev.hold

\* C31 witness: a switch set hold to hold_frames = 2, and three frames
\* later, two of them sampled, it is down to 0.
C31_Witness ==
    /\ pc = "loop"
    /\ cfg.hold_frames = 2
    /\ step = 1
    /\ h_switch_frames = <<0>>
    /\ frame_idx = 3
    /\ hold = 0
    /\ h_prev.hold = 1

\* C32: between two consecutive accepted switches lie at least hold_frames
\* sampled frames without a switch: their frame indices are at least
\* (hold_frames + 1) x stride apart, whatever min_switch_frames is.
C32_HoldSeparatesSwitches ==
    \A k \in 1..(Len(h_switch_frames) - 1) :
        /\ h_switch_frames[k + 1] - h_switch_frames[k] >= (cfg.hold_frames + 1) * Stride
        /\ Cardinality({ i \in (h_switch_frames[k] + 1)..(h_switch_frames[k + 1] - 1) :
                            i % Stride = 0 }) >= cfg.hold_frames

\* C32 witness: with hold_frames = 2, a stride of 1 and no minimum switch
\* interval, the second switch comes three frames after the first.
C32_Witness ==
    /\ pc = "loop"
    /\ cfg.hold_frames = 2
    /\ cfg.min_switch_frames = 0
    /\ Stride = 1
    /\ Len(h_switch_frames) = 2
    /\ h_switch_frames[2] - h_switch_frames[1] = 3

\* The smoothed center on axis i, and the one the last frame started from.
Center(i) == IF i = 1 THEN cx_s ELSE cy_s

PrevCenter(i) == IF i = 1 THEN h_prev.cx_s ELSE h_prev.cy_s

\* C33: with a smoothing factor in (0, 1] the smoothed center does not
\* overshoot the target: on every frame and each axis the new center lies
\* between the old center and the target, both included, and the distance
\* to an unchanged target does not grow.
C33_NoOvershoot ==
    (pc = "loop" /\ frame_idx > 0 /\ last_det # None) =>
        \A i \in 1..2 :
            /\ Center(i) >= Min2(PrevCenter(i), last_det[i])
            /\ Center(i) <= Max2(PrevCenter(i), last_det[i])
            /\ last_det = h_prev.last_det =>
                   Abs(last_det[i] - Center(i)) <= Abs(last_det[i] - PrevCenter(i))

\* C33 witness: with the target unchanged, a frame moved the center toward
\* it and stopped strictly between the old center and the target.
C33_Witness ==
    /\ pc = "loop"
    /\ frame_idx > 1
    /\ last_det # None
    /\ last_det = h_prev.last_det
    /\ \E i \in 1..2 :
        /\ Center(i) # PrevCenter(i)
        /\ Center(i) # last_det[i]
        /\ Abs(last_det[i] - Center(i)) < Abs(last_det[i] - PrevCenter(i))

\* Frames of an unchanged target after which the center is expected to have
\* settled: a distance within the 16 pixels of the frame, halved three
\* times, is below a deadzone of 3 pixels.
SettleFrames == 3

\* On axis i the center is inside the deadzone of the target, or on it.
Settled(c, i) ==
    \/ Abs(last_det[i] - c) < cfg.deadzone_px * Scale
    \/ last_det[i] = c

\* The target has been the same for the last n frames processed.
TargetUnchangedFor(n) ==
    /\ h_switch_frames # << >>
    /\ frame_idx - h_switch_frames[Len(h_switch_frames)] >= n

\* Once the center is settled on an axis, a frame with the same target
\* leaves it where it is on that axis.
StaysSettled ==
    (frame_idx > 0 /\ last_det # None /\ last_det = h_prev.last_det) =>
        \A i \in 1..2 : Settled(PrevCenter(i), i) => Center(i) = PrevCenter(i)

NeverArrivesWithoutDeadzone ==
    (/\ frame_idx > 0
     /\ last_det # None
     /\ cfg.deadzone_px = 0
     /\ cfg.smooth.num < cfg.smooth.den) =>
        \A i \in 1..2 :
            PrevCenter(i) # last_det[i] =>
                /\ Center(i) # last_det[i]
                /\ cfg.smooth.den * (last_det[i] - Center(i))
                       = (cfg.smooth.den - cfg.smooth.num) * (last_det[i] - PrevCenter(i))

\* C35: in speaker mode the index at which the loudness signal is read is
\* within the signal for every frame index, also at or beyond the length
\* of the signal: it is min(len(signal) - 1, frame index).
C35_LoudnessIndexInBounds ==
    (pc = "scored" /\ mode = "speaker") =>
        /\ h_rms_idx # None
        /\ h_rms_idx[1] >= 0
        /\ h_rms_idx[1] <= Len(rms) - 1
        /\ h_rms_idx[1] = (IF frame_idx <= Len(rms) - 1 THEN frame_idx ELSE Len(rms) - 1)

\* C35 witness: the fourth frame of a clip whose signal has three frames
\* read the last element of the signal.
C35_Witness ==
    /\ pc = "scored"
    /\ mode = "speaker"
    /\ Len(rms) = 3
    /\ frame_idx = 3
    /\ h_rms_idx = <<2>>

\* ------------------------------------------------------------------------
\* Concurrent requests to api_create_job for one user: the credit check of
\* lines 590-599.  Each request opens its own connection, reads the
\* balance with a SELECT, compares it in Python and then issues the
\* UPDATE; nothing joins the two statements into one transaction, so
\* requests served by different workers on the same database interleave
\* statement by statement.
\* ------------------------------------------------------------------------

\* Concurrent requests.
MaxRequests == 3

\* Largest balance the requests start from.
MaxCredits == 2

InitCharge ==
    /\ pc = "serving"
    /\ credits \in 0..MaxCredits
    /\ h_credits0 = credits
    /\ jobs = [ r \in 1..MaxRequests |->
                  [ pc |-> "select", credits |-> None, status |-> 0 ] ]
    /\ user_exists = TRUE
    /\ plan = "free"
    /\ next_reset_at = None
    /\ stripe_customer_id = FALSE
    /\ sessions = << >>
    /\ now = 0
    /\ h_expires = << >>
    /\ h_revoked = {}
    /\ h_auth = None
    /\ request = None
    /\ engine_kwargs = None
    /\ http_status = 0
    /\ cfg = None
    /\ in_w = 16
    /\ in_h = 16
    /\ fps = 4
    /\ mode = "face"
    /\ rms = None
    /\ thr = None
    /\ cx_s = 0
    /\ cy_s = 0
    /\ frame_idx = 0
    /\ faces = << >>
    /\ candidate = None
    /\ h_motion = None
    /\ h_scores = None
    /\ h_rms_idx = None
    /\ ClippingIdle
    /\ Unused

\* What a request to api_create_job leaves alone while it charges the user.
charge_frame == << pc, setup, resources, stabilizer, history, h_det, mux_calls,
                   request, engine_kwargs, http_status, h_motion, h_scores,
                   h_rms_idx, user_exists, plan, next_reset_at,
                   stripe_customer_id, sessions, now, h_credits0, h_expires,
                   h_revoked, h_auth, clipping >>

\* row = conn.execute("SELECT credits FROM users WHERE id = ?").fetchone();
\* credits = int(row["credits"]) if row else 0
SelectCredits(r) ==
    /\ jobs[r].pc = "select"
    /\ jobs' = [ jobs EXCEPT ![r].pc = "check",
                             ![r].credits = << IF user_exists THEN credits ELSE 0 >> ]
    /\ UNCHANGED << credits, charge_frame >>

\* if credits < JOB_COST: raise HTTPException(402); else
\* UPDATE users SET credits = credits - JOB_COST; commit.
ChargeOrReject(r) ==
    /\ jobs[r].pc = "check"
    /\ IF jobs[r].credits[1] < JOB_COST
       THEN /\ jobs' = [ jobs EXCEPT ![r].pc = "rejected", ![r].status = 402 ]
            /\ credits' = credits
       ELSE /\ jobs' = [ jobs EXCEPT ![r].pc = "admitted" ]
            /\ credits' = credits - JOB_COST
    /\ UNCHANGED charge_frame

NextCharge ==
    \/ \E r \in 1..MaxRequests : SelectCredits(r)
    \/ \E r \in 1..MaxRequests : ChargeOrReject(r)

SpecCharge == InitCharge /\ [][NextCharge]_vars

\* The requests that were admitted, each charged JOB_COST.
Admitted == { r \in DOMAIN jobs : jobs[r].pc = "admitted" }

\* C36: the balance of a user never becomes negative: however concurrent
\* requests to api_create_job interleave, the jobs admitted cost at most
\* the credits there were, and a request that finds credits < JOB_COST is
\* answered 402.
C36_CreditsNeverNegative ==
    /\ credits >= 0
    /\ Cardinality(Admitted) * JOB_COST <= h_credits0
    /\ \A r \in DOMAIN jobs :
           (jobs[r].pc = "rejected") => (jobs[r].status = 402 /\ jobs[r].credits[1] < JOB_COST)

\* What the check does ensure: a request is rejected exactly when the
\* balance it read is below JOB_COST, and the balance is the initial one
\* less JOB_COST for every admitted request.
ChargeAccounting ==
    /\ credits = h_credits0 - Cardinality(Admitted) * JOB_COST
    /\ \A r \in DOMAIN jobs :
           /\ (jobs[r].pc = "rejected") => (jobs[r].status = 402 /\ jobs[r].credits[1] < JOB_COST)
           /\ (jobs[r].pc = "admitted") => jobs[r].credits[1] >= JOB_COST

\* ------------------------------------------------------------------------
\* The account of one user: the requests of main.py one after the other
\* ------------------------------------------------------------------------

\* PLANS[plan]["monthly_credits"]
PLANS == [ free |-> 10, basic |-> 30, plus |-> 45, pro |-> 75 ]

\* DEFAULT_PLAN = "free"
DEFAULT_PLAN == "free"

\* RESET_DAYS = 30
RESET_DAYS == 30

\* _create_session(user_id, days=14)
SessionDays == 14

\* Session tokens issued at most; token 0 stands for a request without
\* cookie, a token not issued yet for one the table never had.
MaxTokens == 2

\* Last day of the clock.
MaxDay == 30

\* Steps of the clock, in days: up to the expiry of a session or past it.
ClockSteps == {14, 16}

\* STRIPE_PRICE_TO_PLAN, with the three prices configured.
STRIPE_PRICE_TO_PLAN == [ price_basic |-> "basic", price_plus |-> "plus", price_pro |-> "pro" ]

\* The prices of the events received: one of the configured prices, and a
\* price STRIPE_PRICE_TO_PLAN does not have.
StripePrices == {"price_basic", "price_other"}

\* The events stripe_webhook handles, with the status and the price of a
\* subscription.
StripeEvents ==
    [ type : {"checkout.session.completed", "customer.subscription.updated",
              "customer.subscription.deleted"},
      status : {"active", "past_due"},
      price_id : StripePrices ]

\* Mutant of session_lookup: a session is good through the day after its
\* expiry.
session_lookup_with_grace(token) ==
    IF token = 0 \/ token > Len(sessions) THEN "none"
    ELSE IF sessions[token] = None THEN "none"
    ELSE IF now > sessions[token][1] + 2 THEN "expired"
    ELSE IF user_exists THEN "user" ELSE "none"

\* _get_user_by_session(token): "none" without a row for the token (or for
\* its user), "expired" when utcnow() > expires_at, else "user".
session_lookup(token) ==
    IF token = 0 \/ token > Len(sessions) THEN "none"
    ELSE IF sessions[token] = None THEN "none"
    ELSE IF now > sessions[token][1] THEN "expired"
    ELSE IF user_exists THEN "user" ELSE "none"

\* The sessions table after _get_user_by_session(token): an expired row is
\* deleted.
sessions_after_lookup(token) ==
    IF session_lookup(token) = "expired" THEN [ sessions EXCEPT ![token] = None ]
    ELSE sessions

\* Mutant of reset_credits_to: the credits of the month are added to the
\* balance.
reset_credits_adding(plan_now, balance) ==
    balance + PLANS[IF plan_now \in DOMAIN PLANS THEN plan_now ELSE DEFAULT_PLAN]

\* monthly = int(PLANS[plan]["monthly_credits"]), with DEFAULT_PLAN for a
\* plan PLANS does not have; the balance is set to it.
reset_credits_to(plan_now, balance) ==
    PLANS[IF plan_now \in DOMAIN PLANS THEN plan_now ELSE DEFAULT_PLAN]

\* should_reset of _maybe_reset_credits
should_reset == next_reset_at = None \/ now >= next_reset_at[1]

\* _maybe_reset_credits(user_id): the balance and next_reset_at it leaves.
maybe_reset_credits ==
    IF should_reset
    THEN [ credits |-> reset_credits_to(plan, credits),
           next_reset_at |-> << now + RESET_DAYS >> ]
    ELSE [ credits |-> credits, next_reset_at |-> next_reset_at ]

\* _create_session(user_id): a new token, good for SessionDays.
create_session ==
    /\ sessions' = Append(sessions, << now + SessionDays >>)
    /\ h_expires' = Append(h_expires, now + SessionDays)

\* What the requests to the account leave alone.
account_frame == << pc, setup, resources, stabilizer, history, h_det, mux_calls,
                    request, engine_kwargs, http_status, h_motion, h_scores,
                    h_rms_idx, jobs, h_credits0, clipping >>

InitAccount ==
    /\ pc = "serving"
    /\ credits = 0
    /\ AccountIdle
    /\ request = None
    /\ engine_kwargs = None
    /\ http_status = 0
    /\ cfg = None
    /\ in_w = 16
    /\ in_h = 16
    /\ fps = 4
    /\ mode = "face"
    /\ rms = None
    /\ thr = None
    /\ cx_s = 0
    /\ cy_s = 0
    /\ frame_idx = 0
    /\ faces = << >>
    /\ candidate = None
    /\ h_motion = None
    /\ h_scores = None
    /\ h_rms_idx = None
    /\ ClippingIdle
    /\ Unused

\* signup: the user's row is inserted with the free plan and its credits,
\* and a session is created.
Signup ==
    /\ ~user_exists
    /\ Len(sessions) < MaxTokens
    /\ user_exists' = TRUE
    /\ plan' = "free"
    /\ credits' = PLANS["free"]
    /\ next_reset_at' = << now + RESET_DAYS >>
    /\ create_session
    /\ UNCHANGED << stripe_customer_id, now, h_revoked, h_auth, account_frame >>

\* login with the right password: _maybe_reset_credits, then a new
\* session.
Login ==
    /\ user_exists
    /\ Len(sessions) < MaxTokens
    /\ credits' = maybe_reset_credits.credits
    /\ next_reset_at' = maybe_reset_credits.next_reset_at
    /\ create_session
    /\ UNCHANGED << user_exists, plan, stripe_customer_id, now, h_revoked, h_auth,
                    account_frame >>

\* logout: the session row of the cookie's token is deleted.  A token
\* above Len(sessions) is a string no session has: tokens come from
\* secrets.token_urlsafe(32), and a later session does not get that string.
Logout(token) ==
    /\ token # 0
    /\ sessions' = IF token <= Len(sessions) THEN [ sessions EXCEPT ![token] = None ]
                   ELSE sessions
    /\ h_revoked' = IF token <= Len(sessions) THEN h_revoked \cup {token} ELSE h_revoked
    /\ UNCHANGED << user_exists, plan, credits, next_reset_at, stripe_customer_id,
                    now, h_expires, h_auth, account_frame >>

\* A request to an endpoint that depends on get_current_user, sent with
\* token: "me", "job" (api_create_job with a valid form) or "checkout"
\* (stripe_create_checkout_session with a known price).  get_current_user
\* answers 401 without a good session, else resets the credits when due.
Authenticated(token, endpoint) ==
    /\ sessions' = sessions_after_lookup(token)
    /\ h_auth' = [ token |-> token,
                   status |-> IF session_lookup(token) = "user" THEN 200 ELSE 401,
                   revoked |-> token \in h_revoked,
                   past_expiry |-> /\ token \in 1..Len(h_expires)
                                   /\ now > h_expires[token] ]
    /\ IF session_lookup(token) # "user"
       THEN UNCHANGED << credits, next_reset_at, stripe_customer_id >>
       ELSE /\ next_reset_at' = maybe_reset_credits.next_reset_at
            /\ credits' = IF endpoint = "job" /\ maybe_reset_credits.credits >= JOB_COST
                          THEN maybe_reset_credits.credits - JOB_COST
                          ELSE maybe_reset_credits.credits
            /\ stripe_customer_id' = (stripe_customer_id \/ endpoint = "checkout")
    /\ UNCHANGED << user_exists, plan, now, h_expires, h_revoked, account_frame >>

\* stripe_webhook with a signed event for the user's customer: an active
\* subscription at a known price sets the plan and its credits, a deleted
\* one the free plan and its credits.
StripeWebhook(event) ==
    /\ user_exists
    /\ stripe_customer_id
    /\ IF /\ event.type = "customer.subscription.updated"
          /\ event.status = "active"
          /\ event.price_id \in DOMAIN STRIPE_PRICE_TO_PLAN
       THEN /\ plan' = STRIPE_PRICE_TO_PLAN[event.price_id]
            /\ credits' = PLANS[STRIPE_PRICE_TO_PLAN[event.price_id]]
            /\ next_reset_at' = << now + RESET_DAYS >>
       ELSE IF event.type = "customer.subscription.deleted"
       THEN /\ plan' = "free"
            /\ credits' = PLANS["free"]
            /\ next_reset_at' = << now + RESET_DAYS >>
       ELSE UNCHANGED << plan, credits, next_reset_at >>
    /\ UNCHANGED << user_exists, stripe_customer_id, sessions, now, h_expires,
                    h_revoked, h_auth, account_frame >>

\* Time passes.
Tick(days) ==
    /\ now + days <= MaxDay
    /\ now' = now + days
    /\ UNCHANGED << user_exists, plan, credits, next_reset_at, stripe_customer_id,
                    sessions, h_expires, h_revoked, h_auth, account_frame >>

NextAccount ==
    \/ Signup
    \/ Login
    \/ \E token \in 0..MaxTokens : Logout(token)
    \/ \E token \in 0..MaxTokens, endpoint \in {"me", "job", "checkout"} :
           Authenticated(token, endpoint)
    \/ \E event \in StripeEvents : StripeWebhook(event)
    \/ \E days \in ClockSteps : Tick(days)

SpecAccount == InitAccount /\ [][NextAccount]_vars

\* C37: a token authenticates a request only while its session row exists
\* and has not expired: get_current_user answers 401 for a token that was
\* logged out before, or whose expiry has passed; and a lookup that finds
\* an expired row deletes it.
C37_SessionEndsOnLogoutOrExpiry ==
    h_auth # None =>
        /\ (h_auth.revoked \/ h_auth.past_expiry) => h_auth.status = 401
        /\ h_auth.status = 200 => h_auth.token \in 1..Len(h_expires)
        /\ h_auth.past_expiry => sessions[h_auth.token] = None

\* C37 witness: a token that was never logged out was presented after its
\* expiry, was refused, and its row is gone.
C37_Witness ==
    /\ h_auth # None
    /\ h_auth.past_expiry
    /\ ~h_auth.revoked
    /\ h_auth.status = 401
    /\ sessions[h_auth.token] = None

\* C38: after any sequence of signups, logins, credit resets, job creations
\* and Stripe events the user's plan is a key of PLANS and the credits do
\* not exceed the monthly credits of that plan.
C38_CreditsWithinPlan ==
    user_exists =>
        /\ plan \in DOMAIN PLANS
        /\ credits <= PLANS[plan]
        /\ credits >= 0

\* C38 witness: a user on a paid plan, moved there by a Stripe event, has
\* spent credits, and a reset has returned the balance to the plan's
\* monthly credits.
C38_Witness ==
    /\ user_exists
    /\ plan = "basic"
    /\ now >= RESET_DAYS
    /\ next_reset_at[1] > RESET_DAYS + 14
    /\ credits = PLANS["basic"] - 1

\* ---------------------------------------------------------------------
\* The clips of create_job
\* ---------------------------------------------------------------------

\* Bits of the significand of a float: dur, step and the starts are Python
\* floats, whose division and multiplication round to the nearest float.
\* (53 in the program.)
Precision == 6

\* One second, in the units of the model: every float from one second up is
\* a whole number of units.
Unit == Pow2(Precision - 1)

\* Longest input, in seconds.
MaxDur == 40

\* api_create_job takes clip_len from 5 to 120
MinClipLen == 5

MaxClipLen == 7

\* Largest max_clips asked for.
MaxClips == 4

\* Number of bits of n.
RECURSIVE BitLength(_)
BitLength(n) == IF n = 0 THEN 0 ELSE 1 + BitLength(n \div 2)

\* The distance between the floats around q units.
Ulp(q) == IF BitLength(q) > Precision THEN Pow2(BitLength(q) - Precision) ELSE 1

\* The float nearest to a / b units, the even one of two equally near.
fl(a, b) ==
    LET u == Ulp(a \div b)
        m == a \div (u * b)
        r == a % (u * b)
        up == 2 * r > u * b \/ (2 * r = u * b /\ m % 2 = 1)
    IN  u * (IF up THEN m + 1 ELSE m)

\* The durations ffprobe_duration answers with: the floats from one second
\* to MaxDur seconds.
Durations == { d \in Unit..(MaxDur * Unit) : d % Ulp(d) = 0 }

\* count = min(max_clips, max(1, int(dur // clip_len)))
clip_count(dur, clip_len, max_clips) ==
    Min2(max_clips, Max2(1, dur \div (clip_len * Unit)))

\* Mutant of clip_step: the span is divided by count.
clip_step_over_count(dur, clip_len, count) ==
    Max2(Unit, fl(fl(dur - clip_len * Unit, 1), count))

\* step = max(1.0, (dur - clip_len) / (count - 1))
clip_step(dur, clip_len, count) ==
    Max2(Unit, fl(fl(dur - clip_len * Unit, 1), count - 1))

\* starts = [0.0] if count == 1 else [i * step for i in range(count)]
clip_starts(dur, clip_len, max_clips) ==
    LET count == clip_count(dur, clip_len, max_clips)
    IN  IF count = 1 THEN << 0 >>
        ELSE [ i \in 1..count |-> fl((i - 1) * clip_step(dur, clip_len, count), 1) ]

\* create_job is called with the clip_len and max_clips api_create_job let
\* through, on an input whose duration ffprobe could read.
InitClips ==
    /\ pc = "create_job"
    /\ clip_job \in [ dur : Durations, clip_len : MinClipLen..MaxClipLen,
                      max_clips : 1..MaxClips ]
    /\ starts = None
    /\ AccountIdle
    /\ credits = 0
    /\ request = None
    /\ engine_kwargs = None
    /\ http_status = 0
    /\ cfg = None
    /\ in_w = 16
    /\ in_h = 16
    /\ fps = 4
    /\ mode = "face"
    /\ rms = None
    /\ thr = None
    /\ cx_s = 0
    /\ cy_s = 0
    /\ frame_idx = 0
    /\ faces = << >>
    /\ candidate = None
    /\ h_motion = None
    /\ h_scores = None
    /\ h_rms_idx = None
    /\ Unused

\* create_job: one clip for each start, clips[i]["start"] = float(s).
CreateJob ==
    /\ clip_job # None
    /\ starts = None
    /\ starts' = clip_starts(clip_job.dur, clip_job.clip_len, clip_job.max_clips)
    /\ UNCHANGED << pc, setup, resources, stabilizer, history, h_det, mux_calls,
                    request, engine_kwargs, http_status, credits, h_motion,
                    h_scores, h_rms_idx, account, clip_job >>

NextClips == CreateJob

SpecClips == InitClips /\ [][NextClips]_vars

\* floor(duration / clip_len) of the job
WholeClips == clip_job.dur \div (clip_job.clip_len * Unit)

\* duration - clip_len of the job, in units
Span == clip_job.dur - clip_job.clip_len * Unit

\* The number of clips is min(max_clips, max(1, floor(duration / clip_len)))
\* and the first starts at 0.
CountAsAskedFor ==
    /\ Len(starts) = (IF WholeClips < 1 THEN 1
                      ELSE IF WholeClips > clip_job.max_clips THEN clip_job.max_clips
                      ELSE WholeClips)
    /\ starts[1] = 0

\* C39 as stated: create_job produces min(max_clips, max(1, floor(duration /
\* clip_len))) clips, whose starts begin at 0, are at least clip_len apart
\* and, with two clips or more, end no later than duration - clip_len.
C39_ClipsDoNotOverlap ==
    starts # None =>
        /\ CountAsAskedFor
        /\ \A i \in 2..Len(starts) : starts[i] - starts[i - 1] >= clip_job.clip_len * Unit
        /\ Len(starts) >= 2 => starts[Len(starts)] <= Span

\* C39, amended: create_job produces min(max_clips, max(1, floor(duration /
\* clip_len))) clips, whose starts begin at 0 and increase strictly. The
\* starts are the floats computed for i * (duration - clip_len) / (count - 1):
\* these exact values are at least clip_len apart and end at duration -
\* clip_len, and each start is within a relative rounding error of
\* 3 / 2^Precision of its exact value.
C39_ClipsDoNotOverlapUpToRounding ==
    starts # None =>
        /\ CountAsAskedFor
        /\ \A i \in 2..Len(starts) : starts[i] > starts[i - 1]
        /\ Len(starts) >= 2 =>
               /\ Span >= (Len(starts) - 1) * clip_job.clip_len * Unit
               /\ \A i \in 1..Len(starts) :
                      LET exact == (i - 1) * Span
                          got == starts[i] * (Len(starts) - 1)
                      IN  /\ (got - exact) * Pow2(Precision) <= 3 * exact
                          /\ (exact - got) * Pow2(Precision) <= 3 * exact

\* Three clips or more, the last of which starts after duration - clip_len.
C39_Witness ==
    /\ starts # None
    /\ Len(starts) >= 3
    /\ starts[Len(starts)] > Span

=========================================================================
